---- MODULE Spec2Model ----
(***************************************************************************)
(* A model of the graph-first agent loop of Super_Agent:                   *)
(*   agentLoop/contextManager.py  ExecutionContextManager (the plan graph, *)
(*                                node status, globals_schema, extraction) *)
(*   agentLoop/flow.py            AgentLoop4._execute_dag (driver loop) and*)
(*                                AgentLoop4._execute_step (call_self loop)*)
(*   agentLoop/agents.py          AgentRunner.run_agent (the worker call)  *)
(* asyncio is cooperative: the code between two awaits is one action.      *)
(***************************************************************************)
EXTENDS Integers, Sequences, FiniteSets, TLC

\* ------------------------------------------------------------------ bounds
\* Plans of the scheduling family have at most NumNodes steps and MaxEdges edges.
NumNodes == 3
MaxEdges == 2
\* Steps of the plan whose worker may ask for continuation without limit.
IterNodes == 1
\* Length of the deep chain plan (one more than the driver's round cap).
DeepChain == 21

\* ------------------------------------------------------- program constants
\* flow.py:110  max_iterations = 20 (rounds of the driver loop)
dag_max_iterations == 20
\* flow.py:205  max_iterations = 20 (worker invocations of one step)
step_max_iterations == 20
\* contextManager.py:29  the synthetic node "ROOT"; plan steps are 1, 2, ...
ROOT == 0

\* ------------------------------------------------------------ Python values
\* A dynamically typed value is a record [t, v]; a dict is the sequence of its
\* <<key, value>> items in insertion order.
None == [t |-> "none", v |-> 0]
PyBool(b) == [t |-> "bool", v |-> b]
PyInt(i) == [t |-> "int", v |-> i]
PyFloat(i) == [t |-> "float", v |-> i]
PyStr(s) == [t |-> "str", v |-> s]
PyList(s) == [t |-> "list", v |-> s]
PyDict(items) == [t |-> "dict", v |-> items]
PyTuple(s) == [t |-> "tuple", v |-> s]

\* bool(x)
Truthy(x) ==
    CASE x.t = "none" -> FALSE
      [] x.t = "bool" -> x.v
      [] x.t \in {"int", "float"} -> x.v # 0
      [] x.t = "str" -> x.v # ""
      [] OTHER -> Len(x.v) > 0

\* isinstance(x, dict)
IsDict(x) == x.t = "dict"

\* k in d
HasKey(d, k) == \E i \in 1..Len(d.v) : d.v[i][1] = k

\* d[k]
DictAt(d, k) == d.v[CHOOSE i \in 1..Len(d.v) : d.v[i][1] = k][2]

\* d.get(k, default)
DictGet(d, k, default) == IF HasKey(d, k) THEN DictAt(d, k) ELSE default

\* Variant of DictSet with the meaning of d.setdefault(k, val)
DictSet_KeepsOld(d, k, val) ==
    IF HasKey(d, k) THEN d ELSE PyDict(Append(d.v, <<k, val>>))

\* Variant of DictSet that forgets the other keys
DictSet_Only(d, k, val) == PyDict(<< <<k, val>> >>)

\* d[k] = val : an existing key keeps its place, a new key is appended
DictSet(d, k, val) ==
    IF HasKey(d, k)
    THEN PyDict([i \in 1..Len(d.v) |-> IF d.v[i][1] = k THEN <<k, val>> ELSE d.v[i]])
    ELSE PyDict(Append(d.v, <<k, val>>))

\* d.update(items)
RECURSIVE DictUpdate(_, _)
DictUpdate(d, items) ==
    IF items = <<>> THEN d
    ELSE DictUpdate(DictSet(d, Head(items)[1], Head(items)[2]), Tail(items))

\* ------------------------------------------------------------------- state
VARIABLES
    plan_nodes,      \* the plan's node ids, in insertion order (without ROOT)
    edges,           \* plan_graph.edges: set of <<source, target>>
    agent,           \* node attribute 'agent'
    reads,           \* node attribute 'reads'
    writes,          \* node attribute 'writes'
    status,          \* node attribute 'status'
    output,          \* node attribute 'output'
    error,           \* node attribute 'error'
    globals_schema,  \* plan_graph.graph['globals_schema'] (the VariableStore)
    graph_status,    \* plan_graph.graph['status'], assigned by __init__ alone
    pc,              \* where _execute_dag is
    iteration,       \* _execute_dag's round counter
    ready_steps,     \* the ready list of the current round
    results,         \* what asyncio.gather returned, per step of the round
    res_idx,         \* position of the result-processing loop
    task,            \* the _execute_step coroutine of each step
    continue_limit,  \* environment: how often a worker may ask for continuation
    may_fail,        \* environment: whether a model call may fail
    shapes,          \* environment: the kinds of answer the model may give
    save_may_fail,   \* environment: whether writing the session file may fail
    dispatched,      \* observation: _execute_step calls per node
    dispatch_round,  \* observation: the round in which the node was dispatched
    invocations,     \* observation: run_agent calls per node
    worker_failed,   \* observation: a run_agent call of the node returned success=False
    extracted_by,    \* observation: the strategy that bound each write key of the node
    interaction_of,  \* observation: what the user prompt did in the node's mark_done
    execution_of,    \* observation: execution_result in the node's mark_done
    mark_done_raised, \* an exception has left mark_done or another mark_* call
                     \* (and so _execute_dag)
    save_failed      \* observation: _save_session raised in the last mark_* call

planVars == <<plan_nodes, edges, agent, reads, writes, continue_limit, may_fail,
              shapes, save_may_fail, graph_status>>
nodeVars == <<status, output, error, globals_schema>>
dagVars == <<pc, iteration, ready_steps, results, res_idx>>
obsVars == <<dispatched, dispatch_round, invocations, worker_failed>>
mdVars == <<extracted_by, interaction_of, execution_of, mark_done_raised,
            save_failed>>
vars == <<planVars, nodeVars, dagVars, task, obsVars, mdVars>>

\* ------------------------------------------------------------------ graph
\* self.plan_graph.nodes, in iteration order
GraphNodes == <<ROOT>> \o plan_nodes

NodeSet == {GraphNodes[i] : i \in 1..Len(GraphNodes)}

\* self.plan_graph.predecessors(node_id)
predecessors(node_id) == {e[1] : e \in {x \in edges : x[2] = node_id}}

\* nodes reachable from n along one or more edges
RECURSIVE Reach(_, _)
Reach(frontier, seen) ==
    LET nxt == {e[2] : e \in {x \in edges : x[1] \in frontier}} \ seen
    IN IF nxt = {} THEN seen ELSE Reach(nxt, seen \cup nxt)

Descendants(n) == Reach({n}, {})

Acyclic == \A n \in NodeSet : n \notin Descendants(n)

\* ------------------------------------------------- ExecutionContextManager
\* Variants of get_ready_steps with one condition changed
\* ... a node that is running is not skipped
ReadyOf_KeepsRunning(st) ==
    SelectSeq(GraphNodes,
        LAMBDA node_id :
            /\ node_id # ROOT
            /\ st[node_id] \notin {"completed", "failed"}
            /\ \A p \in predecessors(node_id) : st[p] = "completed")

\* ... a dependency counts as soon as it is no longer pending
ReadyOf_DepStarted(st) ==
    SelectSeq(GraphNodes,
        LAMBDA node_id :
            /\ node_id # ROOT
            /\ st[node_id] \notin {"completed", "failed", "running"}
            /\ \A p \in predecessors(node_id) : st[p] # "pending")

\* ... a failed node is not skipped
ReadyOf_KeepsFailed(st) ==
    SelectSeq(GraphNodes,
        LAMBDA node_id :
            /\ node_id # ROOT
            /\ st[node_id] \notin {"completed", "running"}
            /\ \A p \in predecessors(node_id) : st[p] = "completed")

\* ... a completed node is not skipped
ReadyOf_KeepsCompleted(st) ==
    SelectSeq(GraphNodes,
        LAMBDA node_id :
            /\ node_id # ROOT
            /\ st[node_id] \notin {"failed", "running"}
            /\ \A p \in predecessors(node_id) : st[p] = "completed")

\* ... a failed dependency counts as a finished one
ReadyOf_FailedDepOk(st) ==
    SelectSeq(GraphNodes,
        LAMBDA node_id :
            /\ node_id # ROOT
            /\ st[node_id] \notin {"completed", "failed", "running"}
            /\ \A p \in predecessors(node_id) : st[p] \in {"completed", "failed"})

\* get_ready_steps with the status map as its argument
ReadyOf(st) ==
    SelectSeq(GraphNodes,
        LAMBDA node_id :
            /\ node_id # ROOT
            /\ st[node_id] \notin {"completed", "failed", "running"}
            /\ \A p \in predecessors(node_id) : st[p] = "completed")

get_ready_steps == ReadyOf(status)

\* Variant of all_done that takes only completed nodes as done
all_done_CompletedOnly == \A node_id \in NodeSet : status[node_id] = "completed"

\* all_done()
all_done == \A node_id \in NodeSet : status[node_id] \in {"completed", "failed"}

\* any(status == 'failed' for n in nodes)
has_failures == \E n \in NodeSet : status[n] = "failed"

\* Variant of _auto_save without the except branch
_auto_save_Propagates(save_fails) == save_fails

\* _auto_save(): whether an exception leaves it when _save_session raises or
\* not; "except Exception" catches whatever _save_session raises
_auto_save(save_fails) == FALSE

\* what _save_session may do in one mark_* call: FALSE it writes the file, TRUE
\* it raises
SaveOutcomes == IF save_may_fail THEN BOOLEAN ELSE {FALSE}

\* mark_running(step_id): the status map after the call
mark_running(st, step_id) == [st EXCEPT ![step_id] = "running"]

\* "for step_id in ready_steps: context.mark_running(step_id)"
RECURSIVE MarkRunningAll(_, _)
MarkRunningAll(st, steps) ==
    IF steps = <<>> THEN st
    ELSE MarkRunningAll(mark_running(st, Head(steps)), Tail(steps))

\* Variant of get_inputs that resolves a read key to its name, not its value
get_inputs_Names(gs, rds) ==
    PyDict([i \in 1..Len(SelectSeq(rds, LAMBDA k : HasKey(gs, k))) |->
        LET k == SelectSeq(rds, LAMBDA x : HasKey(gs, x))[i] IN <<k, PyStr(k)>>])

\* get_inputs(reads): the read keys that globals_schema holds, with their values
get_inputs(gs, rds) ==
    PyDict([i \in 1..Len(SelectSeq(rds, LAMBDA k : HasKey(gs, k))) |->
        LET k == SelectSeq(rds, LAMBDA x : HasKey(gs, x))[i] IN <<k, DictAt(gs, k)>>])

\* str(value) for None, an int and a tuple of ints
RECURSIVE Str(_), StrItems(_)
StrItems(items) ==
    IF Len(items) = 1 THEN Str(items[1])
    ELSE Str(Head(items)) \o ", " \o StrItems(Tail(items))

Str(value) ==
    IF value.t = "none" THEN "None"
    ELSE IF value.t = "int" THEN ToString(value.v)
    ELSE IF value.v = <<>> THEN "()"
    ELSE IF Len(value.v) = 1 THEN "(" \o Str(value.v[1]) \o ",)"
    ELSE "(" \o StrItems(value.v) \o ")"

\* "value if isinstance(value, (str, int, float, bool, list, dict)) else str(value)"
Coerce(value) ==
    IF value.t \in {"none", "tuple"} THEN PyStr(Str(value)) ELSE value

\* deep_search_output(data, target_key): depth first, the first match wins; a
\* match whose value is None is returned as None, which callers read as "not
\* found" and go on
RECURSIVE deep_search_output(_, _), deep_search_seq(_, _, _, _)
deep_search_seq(items, i, target_key, is_dict) ==
    IF i > Len(items) THEN None
    ELSE IF is_dict /\ items[i][1] = target_key THEN items[i][2]
    ELSE LET result == deep_search_output(
                 IF is_dict THEN items[i][2] ELSE items[i], target_key)
         IN IF result # None THEN result
            ELSE deep_search_seq(items, i + 1, target_key, is_dict)

deep_search_output(data, target_key) ==
    IF data.t = "dict" THEN deep_search_seq(data.v, 1, target_key, TRUE)
    ELSE IF data.t = "list" THEN deep_search_seq(data.v, 1, target_key, FALSE)
    ELSE None

\* the deep_search of strategy 2: the same function under another name
deep_search(data, target_key) == deep_search_output(data, target_key)

\* ------------------------------------------------------------ strings
\* the id of node n as the plan writes it: T1, T2, ...
StepId(n) == "T" \o ToString(n)

\* what stands before and after "formatted", a step id or a write key in the
\* keys of the outputs considered here
KeyFragments == {"", "formatted_", "notes_", "_z", "_report", "_text"}

\* "term in key"
Contains(key, term) ==
    \E before \in KeyFragments, after \in KeyFragments :
        key = before \o term \o after

\* key.lower(), for the keys of the outputs considered here
Lower(key) == IF key = "Formatted_Text" THEN "formatted_text" ELSE key

\* key.startswith(prefix)
StartsWith(key, prefix) == \E rest \in {"", "1", "2"} : key = prefix \o rest

\* ------------------------------------------------ mark_done, before extraction
\* _is_clarification_request(agent_type, output)
_is_clarification_request(agent_type, out) ==
    /\ agent_type = "ClarificationAgent"
    /\ IsDict(out)
    /\ HasKey(out, "clarificationMessage")

\* what _handle_user_interaction_rich can do: return the user's response, or
\* raise (no terminal to prompt on)
NoInteraction == [asked |-> FALSE, raised |-> FALSE, response |-> None]

InteractionRaised == [asked |-> TRUE, raised |-> TRUE, response |-> None]

Responded(user_response) ==
    [asked |-> TRUE, raised |-> FALSE, response |-> user_response]

\* the USER INTERACTION CHECK of mark_done: <<globals_schema, output>> after it
\*   writes_to = output.get("writes_to", "user_response")
\*   globals_schema[writes_to] = user_response
\*   output = output.copy(); output["user_response"] = user_response
\*   output["interaction_completed"] = True
\* an exception of the prompt is caught and leaves both as they were
UserInteractionCheck(gs, agent_type, out, interaction) ==
    IF ~_is_clarification_request(agent_type, out) \/ interaction.raised
    THEN <<gs, out>>
    ELSE LET user_response == interaction.response
             writes_to == DictGet(out, "writes_to", PyStr("user_response"))
         IN <<DictSet(gs, writes_to.v, user_response),
              DictSet(DictSet(out, "user_response", user_response),
                      "interaction_completed", PyBool(TRUE))>>

\* _has_executable_code(output)
_has_executable_code(out) ==
    /\ IsDict(out)
    /\ \/ HasKey(out, "code_variants")
       \/ \E i \in 1..Len(out.v) : StartsWith(out.v[i][1], "CODE_")
       \/ \E key \in {"tool_calls", "schedule_tool", "browser_commands",
                       "python_code"} : HasKey(out, key)

\* _extract_executable_code(output): the items of code_variants whose code is
\* a string; output["code_variants"].items() raises when it is not a mapping
ExtractCodeRaises(out) ==
    HasKey(out, "code_variants") /\ ~IsDict(DictAt(out, "code_variants"))

_extract_executable_code(out) ==
    IF HasKey(out, "code_variants")
    THEN SelectSeq(DictAt(out, "code_variants").v, LAMBDA item : item[2].t = "str")
    ELSE <<>>

\* _auto_execute_code(step_id, output), run being what run_user_code does for
\* the code variants: a result mapping, or None when the call raises
RunCode(code_to_execute, run) ==
    IF code_to_execute = <<>>
    THEN PyDict(<< <<"status", PyStr("error")>>,
                   <<"error", PyStr("No executable code found")>> >>)
    ELSE IF IsDict(run) /\ DictGet(run, "status", None) = PyStr("success")
    THEN DictSet(run, "executed_variant", PyStr(code_to_execute[1][1]))
    ELSE PyDict(<< <<"status", PyStr("error")>>,
                   <<"error", PyStr("All code variants failed")>> >>)

_auto_execute_code(out, run) == RunCode(_extract_executable_code(out), run)

\* "enhanced_output[key] = value if isinstance(value, (str, ...)) else str(value)"
\* for every item of result_data
RECURSIVE MergeItems(_, _)
MergeItems(enhanced_output, items) ==
    IF items = <<>> THEN enhanced_output
    ELSE MergeItems(DictSet(enhanced_output, Head(items)[1], Coerce(Head(items)[2])),
                    Tail(items))

\* _merge_execution_results(original_output, execution_result), for results
\* without the nested web-search structure ('content' lists)
MergeResult(enhanced_output, execution_status, result_data) ==
    IF execution_status = PyStr("success") /\ IsDict(result_data)
    THEN MergeItems(enhanced_output, result_data.v)
    ELSE enhanced_output

_merge_execution_results(original_output, execution_result) ==
    MergeResult(
        DictUpdate(original_output,
            << <<"execution_result", DictGet(execution_result, "result", None)>>,
               <<"execution_status", DictGet(execution_result, "status", None)>>,
               <<"execution_error", DictGet(execution_result, "error", None)>>,
               <<"execution_time", DictGet(execution_result, "execution_time", None)>>,
               <<"executed_variant",
                 DictGet(execution_result, "executed_variant", None)>> >>),
        DictGet(execution_result, "status", None),
        DictGet(execution_result, "result", PyDict(<<>>)))

\* the CODE EXECUTION CHECK of mark_done: <<execution_result, output>> after it;
\* an exception in it is caught and leaves execution_result None
Merged(out, execution_result) ==
    <<execution_result, _merge_execution_results(out, execution_result)>>

CodeExecutionCheck(out, run) ==
    IF ~_has_executable_code(out) \/ ExtractCodeRaises(out)
    THEN <<None, out>>
    ELSE Merged(out, _auto_execute_code(out, run))

\* ------------------------------------------------- mark_done, the extraction
\* what one strategy does for one write key: it binds the key to a value, it
\* leaves the key to the next strategy, or it raises
NotExtracted == [raised |-> FALSE, by |-> "none", value |-> None]

Extracted(by, value) == [raised |-> FALSE, by |-> by, value |-> value]

ExtractionRaised == [raised |-> TRUE, by |-> "raised", value |-> None]

\* the index of the first item of a dict or list that passes the test, 0 if none
FirstWhere(items, Test(_)) ==
    IF \E i \in 1..Len(items) : Test(items[i])
    THEN CHOOSE i \in 1..Len(items) :
             Test(items[i]) /\ \A j \in 1..(i - 1) : ~Test(items[j])
    ELSE 0

\* "if execution_result and execution_result.get('status') == 'success'"
Strategy1Active(execution_result) ==
    /\ Truthy(execution_result)
    /\ DictGet(execution_result, "status", None) = PyStr("success")

\* result_data of strategies 1 and 2: execution_result["result"], or the whole
\* execution_result when that is empty
ResultData(execution_result) ==
    IF Truthy(DictGet(execution_result, "result", PyDict(<<>>)))
    THEN DictGet(execution_result, "result", PyDict(<<>>))
    ELSE execution_result

\* Strategy 1 (code execution results, direct); result_data.keys() raises when
\* the result is not a mapping
Strategy1(execution_result, write_key) ==
    IF ~Strategy1Active(execution_result) THEN NotExtracted
    ELSE IF ~IsDict(DictGet(execution_result, "result", PyDict(<<>>)))
    THEN ExtractionRaised
    ELSE IF HasKey(ResultData(execution_result), write_key)
    THEN Extracted("execution_result_direct",
                   Coerce(DictAt(ResultData(execution_result), write_key)))
    ELSE NotExtracted

\* Strategy 2 (deep search in result_data), tried after strategy 1
Strategy2(execution_result, write_key) ==
    IF ~Strategy1Active(execution_result) THEN NotExtracted
    ELSE IF deep_search(ResultData(execution_result), write_key) # None
    THEN Extracted("execution_result_deep",
                   Coerce(deep_search(ResultData(execution_result), write_key)))
    ELSE NotExtracted

\* Strategy 3 (direct agent output)
\*   write_key in output                          -> that value
\*   elif output["execution_result"] is a dict    -> its write_key, if it has one
\*   else                                         -> deep search of the output
Strategy3(out, write_key) ==
    IF ~(Truthy(out) /\ IsDict(out)) THEN NotExtracted
    ELSE IF HasKey(out, write_key)
    THEN Extracted("output_direct", Coerce(DictAt(out, write_key)))
    ELSE IF HasKey(out, "execution_result") /\ IsDict(DictAt(out, "execution_result"))
    THEN IF HasKey(DictAt(out, "execution_result"), write_key)
         THEN Extracted("output_execution_result",
                        Coerce(DictAt(DictAt(out, "execution_result"), write_key)))
         ELSE NotExtracted
    ELSE IF deep_search_output(out, write_key) # None
    THEN Extracted("output_deep", Coerce(deep_search_output(out, write_key)))
    ELSE NotExtracted

\* formatter_patterns of strategy 4
formatter_patterns(write_key, step_id) ==
    << "formatted_" \o write_key, "formatted_report_" \o write_key,
       "formatted_html_" \o write_key, "formatted_output_" \o write_key,
       "formatted_" \o write_key, "formatted_report_" \o step_id,
       "formatted_html_" \o step_id, "formatted_output_" \o step_id,
       "formatted_" \o step_id, "formatted_report", "formatted_html",
       "formatted_output", "formatted" >>

\* Strategy 4 without the test of the agent type
Strategy4_AnyAgent(out, write_key, agent_type, step_id) ==
    IF ~Truthy(out) THEN NotExtracted
    ELSE IF ~IsDict(out) THEN ExtractionRaised
    ELSE LET patterns == formatter_patterns(write_key, step_id)
             p == FirstWhere(patterns,
                      LAMBDA pattern : HasKey(out, pattern) /\ Truthy(DictAt(out, pattern)))
         IN IF p # 0 THEN Extracted("formatter_pattern", DictAt(out, patterns[p]))
            ELSE NotExtracted

\* Strategy 4 taking the first pattern the output has, empty or not
Strategy4_FirstPresent(out, write_key, agent_type, step_id) ==
    IF ~(agent_type = "FormatterAgent" /\ Truthy(out)) THEN NotExtracted
    ELSE IF ~IsDict(out) THEN ExtractionRaised
    ELSE LET patterns == formatter_patterns(write_key, step_id)
             p == FirstWhere(patterns, LAMBDA pattern : HasKey(out, pattern))
         IN IF p # 0 THEN Extracted("formatter_pattern", DictAt(out, patterns[p]))
            ELSE NotExtracted

\* Strategy 4 (FormatterAgent only): the patterns, then any key containing
\* 'formatted', then any key containing the step id or the write key; each
\* needs a truthy value; output.keys() raises when the output is not a mapping
Strategy4(out, write_key, agent_type, step_id) ==
    IF ~(agent_type = "FormatterAgent" /\ Truthy(out)) THEN NotExtracted
    ELSE IF ~IsDict(out) THEN ExtractionRaised
    ELSE LET patterns == formatter_patterns(write_key, step_id)
             p == FirstWhere(patterns,
                      LAMBDA pattern : HasKey(out, pattern) /\ Truthy(DictAt(out, pattern)))
             f == FirstWhere(out.v,
                      LAMBDA item : Contains(Lower(item[1]), "formatted") /\ Truthy(item[2]))
             c == FirstWhere(out.v,
                      LAMBDA item : /\ Truthy(item[2])
                                    /\ \/ Contains(item[1], step_id)
                                       \/ Contains(item[1], write_key))
         IN IF p # 0 THEN Extracted("formatter_pattern", DictAt(out, patterns[p]))
            ELSE IF f # 0 THEN Extracted("formatter_fallback", out.v[f][2])
            ELSE IF c # 0 THEN Extracted("formatter_comprehensive", out.v[c][2])
            ELSE NotExtracted

\* Variant of Strategy 5 whose last resort binds None
Strategy5_Unset(out, execution_result, write_key) ==
    IF Truthy(out) /\ IsDict(out) /\ FirstWhere(out.v, LAMBDA item : Truthy(item[2])) # 0
    THEN Extracted("fallback_output",
                   Coerce(out.v[FirstWhere(out.v, LAMBDA item : Truthy(item[2]))][2]))
    ELSE Extracted("last_resort", None)

\* Strategy 5 (emergency fallback): the first key of a non-empty result mapping,
\* else the first truthy value of the output, else the empty list; the debug
\* prints before it call .keys() on the result and on the output
Strategy5(out, execution_result, write_key) ==
    IF \/ /\ Truthy(execution_result)
          /\ ~IsDict(DictGet(execution_result, "result", PyDict(<<>>)))
       \/ Truthy(out) /\ ~IsDict(out)
    THEN ExtractionRaised
    ELSE IF /\ Truthy(execution_result)
            /\ Truthy(DictGet(execution_result, "result", None))
            /\ DictAt(execution_result, "result").v[1][1] # ""
    THEN Extracted("fallback_result",
                   Coerce(DictAt(execution_result, "result").v[1][2]))
    ELSE IF Truthy(out) /\ FirstWhere(out.v, LAMBDA item : Truthy(item[2])) # 0
    THEN Extracted("fallback_output",
                   Coerce(out.v[FirstWhere(out.v, LAMBDA item : Truthy(item[2]))][2]))
    ELSE Extracted("last_resort", PyList(<<>>))

\* the strategies in the order of the code; the first that extracts or raises
\* decides
ExtractKey(write_key, out, execution_result, agent_type, step_id) ==
    LET s1 == Strategy1(execution_result, write_key)
        s2 == Strategy2(execution_result, write_key)
        s3 == Strategy3(out, write_key)
        s4 == Strategy4(out, write_key, agent_type, step_id)
    IN IF s1 # NotExtracted THEN s1
       ELSE IF s2 # NotExtracted THEN s2
       ELSE IF s3 # NotExtracted THEN s3
       ELSE IF s4 # NotExtracted THEN s4
       ELSE Strategy5(out, execution_result, write_key)

\* "for write_key in writes: ..." of mark_done, from the state acc =
\* [raised, gs, by]; an exception ends the loop with the keys bound so far
RECURSIVE ExtractAll(_, _, _, _, _, _)
ExtractAll(acc, wrs, out, execution_result, agent_type, step_id) ==
    IF wrs = <<>> \/ acc.raised THEN acc
    ELSE LET e == ExtractKey(Head(wrs), out, execution_result, agent_type, step_id)
         IN ExtractAll([raised |-> e.raised,
                        gs |-> IF e.raised THEN acc.gs
                               ELSE DictSet(acc.gs, Head(wrs), e.value),
                        by |-> Append(acc.by, e.by)],
                       Tail(wrs), out, execution_result, agent_type, step_id)

\* mark_done(step_id, output) as a function of the store, the node, the output
\* and what the two collaborators do: the user prompt and run_user_code
\* ... the extraction and what mark_done leaves behind, ce being
\* <<execution_result, output>> after the code execution check
Extraction(gs, step_id, ce) ==
    [ex |-> ExtractAll([raised |-> FALSE, gs |-> gs, by |-> <<>>],
                       writes[step_id], ce[2], ce[1], agent[step_id],
                       StepId(step_id)),
     output |-> ce[2], execution_result |-> ce[1]]

\* ... the code execution check, ui being <<globals_schema, output>> after the
\* user interaction check
AfterInteraction(step_id, ui, run) ==
    Extraction(ui[1], step_id, CodeExecutionCheck(ui[2], run))

MarkDone(gs, step_id, out, interaction, run) ==
    AfterInteraction(step_id,
        UserInteractionCheck(gs, agent[step_id], out, interaction), run)

\* what the prompt can do for this node and output
Interactions == {Responded(PyStr("A")), Responded(PyStr("")), InteractionRaised}

InteractionsFor(step_id, out) ==
    IF _is_clarification_request(agent[step_id], out) THEN Interactions
    ELSE {NoInteraction}

\* what run_user_code can do for the code of this output
RunResults ==
    {PyDict(<< <<"status", PyStr("success")>>,
               <<"result", PyDict(<< <<"z", PyInt(42)>> >>)>> >>),
     PyDict(<< <<"status", PyStr("success")>>,
               <<"result", PyDict(<< <<"q", PyInt(1)>>,
                                     <<"data", PyDict(<< <<"z", PyInt(7)>> >>)>> >>)>> >>),
     PyDict(<< <<"status", PyStr("success")>>, <<"result", PyDict(<<>>)>> >>),
     PyDict(<< <<"status", PyStr("success")>>, <<"result", PyInt(7)>> >>),
     PyDict(<< <<"status", PyStr("success")>>,
               <<"result",
                 PyDict(<< <<"z", PyTuple(<<PyInt(1), PyInt(2)>>)>> >>)>> >>),
     PyDict(<< <<"status", PyStr("success")>>,
               <<"result", PyDict(<< <<"w", PyList(<<>>)>>, <<"n", PyInt(3)>> >>)>> >>),
     PyDict(<< <<"status", PyStr("error")>>, <<"error", PyStr("NameError")>> >>),
     None}

RunsFor(out) ==
    IF /\ _has_executable_code(out)
       /\ ~ExtractCodeRaises(out)
       /\ _extract_executable_code(out) # <<>>
    THEN RunResults
    ELSE {None}

\* mark_done(step_id, output): globals_schema gets the user's response and the
\* write keys; unless an exception leaves mark_done, the node is completed,
\* whatever the output is (also None)
StoreResults(step_id, interaction, md) ==
    /\ globals_schema' = md.ex.gs
    /\ status' = IF md.ex.raised THEN status
                 ELSE [status EXCEPT ![step_id] = "completed"]
    /\ output' = IF md.ex.raised THEN output
                 ELSE [output EXCEPT ![step_id] = md.output]
    /\ extracted_by' = [extracted_by EXCEPT ![step_id] = md.ex.by]
    /\ interaction_of' = [interaction_of EXCEPT ![step_id] = interaction]
    /\ execution_of' = [execution_of EXCEPT ![step_id] = md.execution_result]
    /\ \E save_fails \in IF md.ex.raised THEN {FALSE} ELSE SaveOutcomes :
         /\ save_failed' = save_fails
         /\ mark_done_raised' = (md.ex.raised \/ _auto_save(save_fails))
    /\ UNCHANGED error

mark_done(step_id, out, interaction, run) ==
    StoreResults(step_id, interaction,
                 MarkDone(globals_schema, step_id, out, interaction, run))

\* Variant of mark_failed that records the error and leaves the status
mark_failed_StatusKept(step_id, err) ==
    /\ error' = [error EXCEPT ![step_id] = IF Truthy(err) THEN err ELSE None]
    /\ \E save_fails \in SaveOutcomes :
         /\ save_failed' = save_fails
         /\ mark_done_raised' = _auto_save(save_fails)
    /\ UNCHANGED <<status, output, globals_schema, extracted_by, interaction_of,
                   execution_of>>

\* mark_failed(step_id, error)
mark_failed(step_id, err) ==
    /\ status' = [status EXCEPT ![step_id] = "failed"]
    /\ error' = [error EXCEPT ![step_id] = IF Truthy(err) THEN err ELSE None]
    /\ \E save_fails \in SaveOutcomes :
         /\ save_failed' = save_fails
         /\ mark_done_raised' = _auto_save(save_fails)
    /\ UNCHANGED <<output, globals_schema, extracted_by, interaction_of, execution_of>>

\* ------------------------------------------------------ AgentRunner (worker)
\* the agent types config/agent_config.yaml configures
agent_configs ==
    {"PlannerAgent", "DistillerAgent", "RetrieverAgent", "CoderAgent",
     "FormatterAgent", "ClarificationAgent"}

\* the variable a step is planned to write: v1, v2, ...
KeyOf(n) == "v" \o ToString(n)

\* calculate_cost: the four accounting keys run_agent adds to every output
cost_data ==
    << <<"cost", PyFloat(1)>>, <<"input_tokens", PyInt(15)>>,
       <<"output_tokens", PyInt(6)>>, <<"total_tokens", PyInt(21)>> >>

\* what the language model answers for step n: a continuation request with a
\* first version of the step's variable, or the final answer
ContinueOutput(n) ==
    PyDict(<< <<KeyOf(n), PyStr("draft")>>, <<"call_self", PyBool(TRUE)>>,
              <<"next_instruction", PyStr("refine")>> >>)

\* a continuation request that also hands on an iteration context and another
\* instruction
NextOutput(n) ==
    PyDict(<< <<KeyOf(n), PyStr("outline")>>, <<"call_self", PyBool(TRUE)>>,
              <<"next_instruction", PyStr("polish")>>,
              <<"iteration_context", PyDict(<< <<"round", PyInt(2)>> >>)>> >>)

\* a continuation request with neither next_instruction nor iteration_context
BareOutput(n) ==
    PyDict(<< <<KeyOf(n), PyStr("sketch")>>, <<"call_self", PyBool(TRUE)>> >>)

\* the value the final answer of step n carries for the step's variable
ValueOf(n) == PyInt(5 * n)

\* an answer that names its value by the step's first declared write key
WriteOutput(n) == PyDict(<< <<writes[n][1], ValueOf(n)>> >>)

\* a ClarificationAgent's answer: a question whose reply goes to the step's
\* first declared write key
ClarifyOutput(n) ==
    PyDict(<< <<"clarificationMessage", PyStr("Which?")>>,
              <<"writes_to", PyStr(writes[n][1])>> >>)

FinalOutput(n) ==
    PyDict(<< <<KeyOf(n), ValueOf(n)>>, <<"call_self", PyBool(FALSE)>> >>)

\* other answers of the model: the step's variable without a call_self key, an
\* empty JSON object, and a JSON array
PlainOutput(n) == PyDict(<< <<KeyOf(n), ValueOf(n)>> >>)

EmptyOutput == PyDict(<<>>)

ListOutput(n) == PyList(<<ValueOf(n)>>)

\* the answer of each kind
AnswerOf(n, kind) ==
    CASE kind = "final" -> FinalOutput(n)
      [] kind = "plain" -> PlainOutput(n)
      [] kind = "empty" -> EmptyOutput
      [] kind = "next" -> NextOutput(n)
      [] kind = "bare" -> BareOutput(n)
      [] kind = "write" -> WriteOutput(n)
      [] kind = "clarify" -> ClarifyOutput(n)
      [] OTHER -> ListOutput(n)

\* run_agent's result on success: {"success": True, "output": output}
AgentSuccess(out) ==
    [exc |-> FALSE, success |-> TRUE, output |-> DictUpdate(out, cost_data),
     error |-> None]

\* run_agent's result when anything in it raised: {"success": False, "error": str(e)}
AgentFailure ==
    [exc |-> FALSE, success |-> FALSE, output |-> None,
     error |-> PyStr("model call failed")]

\* run_agent from the parsed answer on: "output.update(cost_data)" raises for
\* an answer that is not a mapping, and the except branch returns the failure
RunAgentResult(parsed) ==
    IF IsDict(parsed) THEN AgentSuccess(parsed) ELSE AgentFailure

\* ------------------------------------------------- AgentLoop4._execute_step
NoResult == [exc |-> FALSE, success |-> FALSE, output |-> None, error |-> None]

IdleTask ==
    [pc |-> "idle", current_iteration |-> 0, current_output |-> None,
     current_instruction |-> None, current_iteration_context |-> None,
     iterations_data |-> <<>>, agent_input |-> None,
     inputs |-> PyDict(<<>>), result |-> NoResult]

\* step_data.get("agent_prompt", step_data["description"])
agent_prompt(n) == PyStr("prompt of " \o StepId(n))

\* Variant of build_agent_input that always sends the step's own prompt
build_agent_input_OwnPrompt(n, gs, inputs, instruction, previous_output, iteration_context) ==
    PyDict(<< <<"step_id", PyStr(StepId(n))>>, <<"agent_prompt", agent_prompt(n)>>,
              <<"reads", PyList([i \in 1..Len(reads[n]) |-> PyStr(reads[n][i])])>>,
              <<"writes", PyList([i \in 1..Len(writes[n]) |-> PyStr(writes[n][i])])>>,
              <<"inputs", inputs>> >>
           \o (IF agent[n] = "FormatterAgent"
               THEN << <<"all_globals_schema", gs>> >> ELSE <<>>)
           \o (IF Truthy(previous_output)
               THEN << <<"previous_output", previous_output>> >> ELSE <<>>)
           \o (IF Truthy(iteration_context)
               THEN << <<"iteration_context", iteration_context>> >> ELSE <<>>))

\* build_agent_input(instruction, previous_output, iteration_context) of step
\* n: "instruction or" the step's own prompt, previous_output and
\* iteration_context only when they are truthy, and for FormatterAgent a copy
\* of the whole globals_schema (its original_query and session_context, which
\* never change during a run, are left out)
build_agent_input(n, gs, inputs, instruction, previous_output, iteration_context) ==
    PyDict(<< <<"step_id", PyStr(StepId(n))>>,
              <<"agent_prompt", IF Truthy(instruction) THEN instruction
                                ELSE agent_prompt(n)>>,
              <<"reads", PyList([i \in 1..Len(reads[n]) |-> PyStr(reads[n][i])])>>,
              <<"writes", PyList([i \in 1..Len(writes[n]) |-> PyStr(writes[n][i])])>>,
              <<"inputs", inputs>> >>
           \o (IF agent[n] = "FormatterAgent"
               THEN << <<"all_globals_schema", gs>> >> ELSE <<>>)
           \o (IF Truthy(previous_output)
               THEN << <<"previous_output", previous_output>> >> ELSE <<>>)
           \o (IF Truthy(iteration_context)
               THEN << <<"iteration_context", iteration_context>> >> ELSE <<>>))

\* the while condition of the iterations loop
LoopGuard(current_iteration) == current_iteration <= step_max_iterations

\* Variant of Breaks that stops only for a call_self key that is present and false
Breaks_NeedsKey(current_output, current_iteration) ==
    \/ /\ Truthy(current_output) /\ IsDict(current_output)
       /\ HasKey(current_output, "call_self")
       /\ ~Truthy(DictGet(current_output, "call_self", PyBool(FALSE)))
    \/ current_iteration > step_max_iterations

\* Variant of Breaks whose safety check stops one invocation early
Breaks_OneEarly(current_output, current_iteration) ==
    \/ /\ Truthy(current_output) /\ IsDict(current_output)
       /\ ~Truthy(DictGet(current_output, "call_self", PyBool(FALSE)))
    \/ current_iteration >= step_max_iterations

\* after a successful invocation: does the loop leave through one of its breaks?
\*   "if current_output and isinstance(current_output, dict):
\*        if not call_self: break"
\*   "if current_iteration > max_iterations: break"
Breaks(current_output, current_iteration) ==
    \/ /\ Truthy(current_output) /\ IsDict(current_output)
       /\ ~Truthy(DictGet(current_output, "call_self", PyBool(FALSE)))
    \/ current_iteration > step_max_iterations

\* _execute_step's return statement
StepReturn(current_output) ==
    [exc |-> FALSE, success |-> TRUE, output |-> current_output, error |-> None]

\* an exception leaving _execute_step, as asyncio.gather(return_exceptions=True)
\* hands it back
StepRaised(msg) ==
    [exc |-> TRUE, success |-> FALSE, output |-> None, error |-> PyStr(msg)]

\* the event loop starts the coroutines of a round in the order gather got them
FirstNew(n) ==
    \E i \in 1..Len(ready_steps) :
        /\ ready_steps[i] = n
        /\ \A j \in 1..(i - 1) : task[ready_steps[j]].pc # "new"

\* the coroutine runs up to its first suspension: get_inputs, build_agent_input
\* and the call of run_agent, which raises ValueError at once for an agent type
\* that is not configured and otherwise waits for the model
StepStart(n) ==
    /\ pc = "gather"
    /\ task[n].pc = "new"
    /\ FirstNew(n)
    /\ invocations' = [invocations EXCEPT ![n] = IF LoopGuard(1) THEN @ + 1 ELSE @]
    /\ task' = [task EXCEPT ![n] =
           IF ~LoopGuard(1)
           THEN [@ EXCEPT !.pc = "done", !.current_iteration = 1,
                          !.inputs = get_inputs(globals_schema, reads[n]),
                          !.result = StepReturn(None)]
           ELSE IF agent[n] \notin agent_configs
           THEN [@ EXCEPT !.pc = "done", !.current_iteration = 1,
                          !.inputs = get_inputs(globals_schema, reads[n]),
                          !.agent_input =
                              build_agent_input(n, globals_schema,
                                  get_inputs(globals_schema, reads[n]),
                                  None, None, None),
                          !.result = StepRaised("Unknown agent type")]
           ELSE [@ EXCEPT !.pc = "await", !.current_iteration = 1,
                          !.inputs = get_inputs(globals_schema, reads[n]),
                          !.agent_input =
                              build_agent_input(n, globals_schema,
                                  get_inputs(globals_schema, reads[n]),
                                  None, None, None)]]
    /\ UNCHANGED <<planVars, mdVars, nodeVars, dagVars, dispatched, dispatch_round,
                   worker_failed>>

\* the rest of one pass of the iterations loop, from run_agent's return to the
\* next run_agent call or to the return of _execute_step
AfterAgent(n, result) ==
    IF ~result.success
    THEN \* "if not result['success']: break"
         /\ task' = [task EXCEPT ![n] =
                [@ EXCEPT !.pc = "done", !.result = StepReturn(task[n].current_output)]]
         /\ worker_failed' = [worker_failed EXCEPT ![n] = TRUE]
         /\ UNCHANGED <<output, invocations>>
    ELSE LET current_output == result.output
             current_iteration == task[n].current_iteration + 1
             leaves == \/ Breaks(current_output, current_iteration)
                       \/ ~LoopGuard(current_iteration)
             continues == /\ Truthy(current_output) /\ IsDict(current_output)
                          /\ Truthy(DictGet(current_output, "call_self", PyBool(FALSE)))
             \* current_output.get("next_instruction", current_instruction)
             current_instruction ==
                 IF continues
                 THEN DictGet(current_output, "next_instruction",
                              task[n].current_instruction)
                 ELSE task[n].current_instruction
             \* current_output.get("iteration_context", current_iteration_context)
             current_iteration_context ==
                 IF continues
                 THEN DictGet(current_output, "iteration_context",
                              task[n].current_iteration_context)
                 ELSE task[n].current_iteration_context
         IN \* set_step_output(step_id, result["output"])
            /\ output' = [output EXCEPT ![n] = current_output]
            /\ task' = [task EXCEPT ![n] =
                   [@ EXCEPT !.pc = IF leaves THEN "done" ELSE "await",
                             !.current_iteration = current_iteration,
                             !.current_output = current_output,
                             !.current_instruction = current_instruction,
                             !.current_iteration_context = current_iteration_context,
                             !.agent_input =
                                 IF leaves THEN @
                                 ELSE build_agent_input(n, globals_schema,
                                          task[n].inputs, current_instruction,
                                          current_output, current_iteration_context),
                             !.result = IF leaves THEN StepReturn(current_output)
                                        ELSE @]]
            /\ invocations' = [invocations EXCEPT ![n] = IF leaves THEN @ ELSE @ + 1]
            /\ UNCHANGED worker_failed

\* run_agent returns to the waiting coroutine of step n
WorkerReturn(n) ==
    /\ pc = "gather"
    /\ task[n].pc = "await"
    /\ \E result \in
           {RunAgentResult(AnswerOf(n, kind)) : kind \in shapes}
           \cup (IF task[n].current_iteration <= continue_limit
                 THEN {AgentSuccess(ContinueOutput(n))} ELSE {})
           \cup (IF may_fail THEN {AgentFailure} ELSE {}) :
         AfterAgent(n, result)
    /\ UNCHANGED <<planVars, mdVars, status, error, globals_schema, dagVars, dispatched,
                   dispatch_round>>

\* -------------------------------------------------- AgentLoop4._execute_dag
\* the loop condition "not context.all_done() and iteration < max_iterations"
LoopCondition == ~all_done /\ iteration < dag_max_iterations

\* Variant of IdleRound that does not count the round
IdleRound_Uncounted ==
    /\ pc = "loop"
    /\ LoopCondition
    /\ get_ready_steps = <<>>
    /\ ~has_failures
    /\ ready_steps' = get_ready_steps
    /\ UNCHANGED <<planVars, mdVars, nodeVars, pc, iteration, results, res_idx, task, obsVars>>

\* a round with an empty ready list and no failed node: sleep and try again
IdleRound ==
    /\ pc = "loop"
    /\ LoopCondition
    /\ get_ready_steps = <<>>
    /\ ~has_failures
    /\ iteration' = iteration + 1
    /\ ready_steps' = get_ready_steps
    /\ UNCHANGED <<planVars, mdVars, nodeVars, pc, results, res_idx, task, obsVars>>

\* Variant of BreakOnFailure that sleeps and tries again instead of breaking
BreakOnFailure_Retries ==
    /\ pc = "loop"
    /\ LoopCondition
    /\ get_ready_steps = <<>>
    /\ has_failures
    /\ iteration' = iteration + 1
    /\ ready_steps' = get_ready_steps
    /\ UNCHANGED <<planVars, mdVars, nodeVars, pc, results, res_idx, task, obsVars>>

\* a round with an empty ready list and a failed node: break
BreakOnFailure ==
    /\ pc = "loop"
    /\ LoopCondition
    /\ get_ready_steps = <<>>
    /\ has_failures
    /\ iteration' = iteration + 1
    /\ ready_steps' = get_ready_steps
    /\ pc' = "done"
    /\ UNCHANGED <<planVars, mdVars, nodeVars, results, res_idx, task, obsVars>>

\* a round with ready steps: mark them running, create their coroutines and
\* wait in asyncio.gather
Dispatch ==
    /\ pc = "loop"
    /\ LoopCondition
    /\ get_ready_steps # <<>>
    /\ iteration' = iteration + 1
    /\ ready_steps' = get_ready_steps
    /\ \E save_fails \in SaveOutcomes :
         /\ save_failed' = save_fails
         /\ mark_done_raised' = _auto_save(save_fails)
         /\ status' = IF _auto_save(save_fails)
                      THEN mark_running(status, Head(get_ready_steps))
                      ELSE MarkRunningAll(status, get_ready_steps)
    /\ task' = [n \in NodeSet |->
           IF \E i \in 1..Len(get_ready_steps) : get_ready_steps[i] = n
           THEN [IdleTask EXCEPT !.pc = "new"] ELSE task[n]]
    /\ dispatched' = [n \in NodeSet |->
           dispatched[n] + Cardinality({i \in 1..Len(get_ready_steps) :
                                           get_ready_steps[i] = n})]
    /\ dispatch_round' = [n \in NodeSet |->
           IF \E i \in 1..Len(get_ready_steps) : get_ready_steps[i] = n
           THEN iteration + 1 ELSE dispatch_round[n]]
    /\ pc' = IF mark_done_raised' THEN "raised" ELSE "gather"
    /\ UNCHANGED <<planVars, extracted_by, interaction_of, execution_of, output, error,
                   globals_schema, results, res_idx,
                   invocations, worker_failed>>

\* Variant of GatherReturn in which the exception of one coroutine is the
\* result of every coroutine of the round
GatherReturn_SharedException ==
    /\ pc = "gather"
    /\ \A i \in 1..Len(ready_steps) : task[ready_steps[i]].pc = "done"
    /\ results' = [i \in 1..Len(ready_steps) |->
           IF \E j \in 1..Len(ready_steps) : task[ready_steps[j]].result.exc
           THEN task[ready_steps[CHOOSE j \in 1..Len(ready_steps) :
                                     task[ready_steps[j]].result.exc]].result
           ELSE task[ready_steps[i]].result]
    /\ res_idx' = 1
    /\ pc' = "process"
    /\ UNCHANGED <<planVars, mdVars, nodeVars, iteration, ready_steps, task, obsVars>>

\* Variant of GatherReturn that returns as soon as one coroutine is done
GatherReturn_FirstDone ==
    /\ pc = "gather"
    /\ \E i \in 1..Len(ready_steps) : task[ready_steps[i]].pc = "done"
    /\ results' = [i \in 1..Len(ready_steps) |-> task[ready_steps[i]].result]
    /\ res_idx' = 1
    /\ pc' = "process"
    /\ UNCHANGED <<planVars, mdVars, nodeVars, iteration, ready_steps, task, obsVars>>

\* asyncio.gather returns when every coroutine of the round has returned or raised
GatherReturn ==
    /\ pc = "gather"
    /\ \A i \in 1..Len(ready_steps) : task[ready_steps[i]].pc = "done"
    /\ results' = [i \in 1..Len(ready_steps) |-> task[ready_steps[i]].result]
    /\ res_idx' = 1
    /\ pc' = "process"
    /\ UNCHANGED <<planVars, mdVars, nodeVars, iteration, ready_steps, task, obsVars>>

\* one pass of "for step_id, result in zip(ready_steps, results)"
ProcessResult ==
    /\ pc = "process"
    /\ res_idx <= Len(ready_steps)
    /\ LET step_id == ready_steps[res_idx]
           result == results[res_idx]
       IN IF result.exc THEN mark_failed(step_id, result.error)
          ELSE IF result.success
          THEN \E interaction \in InteractionsFor(step_id, result.output) :
                 \E run \in RunsFor(
                         UserInteractionCheck(globals_schema, agent[step_id],
                                              result.output, interaction)[2]) :
                   mark_done(step_id, result.output, interaction, run)
          ELSE mark_failed(step_id, result.error)
    /\ res_idx' = res_idx + 1
    /\ pc' = IF mark_done_raised' THEN "raised"
             ELSE IF res_idx + 1 > Len(ready_steps) THEN "loop" ELSE "process"
    /\ UNCHANGED <<planVars, iteration, ready_steps, results, task, obsVars>>

\* the loop condition is false: final state
ExitLoop ==
    /\ pc = "loop"
    /\ ~LoopCondition
    /\ pc' = "done"
    /\ UNCHANGED <<planVars, mdVars, nodeVars, iteration, ready_steps, results, res_idx,
                   task, obsVars>>

\* ---------------------------------------------------------------- the plans
\* the edges a plan over steps 1..k may have: from ROOT or a step to a step
EdgeCandidates(k) == (0..k) \X (1..k)

\* the subsets of C with at most m elements
RECURSIVE SetsUpTo(_, _)
SetsUpTo(C, m) ==
    IF m = 0 THEN {{}}
    ELSE LET smaller == SetsUpTo(C, m - 1)
         IN smaller \cup {s \cup {e} : s \in smaller, e \in C}

\* reads of step n: the variables of the steps it depends on
ReadsOf(k, E, n) ==
    LET deps == SelectSeq([i \in 1..k |-> i], LAMBDA p : <<p, n>> \in E)
    IN [i \in 1..Len(deps) |-> KeyOf(deps[i])]

\* the graph of a plan (k steps, edges E, agent types ag) whose nodes have the
\* statuses st, with no round started
GraphInit(k, E, ag, st) ==
    /\ plan_nodes = [i \in 1..k |-> i]
    /\ edges = E
    /\ agent = [n \in 0..k |-> IF n = ROOT THEN "System" ELSE ag[n]]
    /\ reads = [n \in 0..k |-> IF n = ROOT THEN <<>> ELSE ReadsOf(k, E, n)]
    /\ writes = [n \in 0..k |-> IF n = ROOT THEN <<>> ELSE <<KeyOf(n)>>]
    /\ status = st
    /\ output = [n \in 0..k |-> None]
    /\ error = [n \in 0..k |-> None]
    /\ globals_schema = PyDict(<<>>)
    /\ graph_status = "running"
    /\ iteration = 0
    /\ ready_steps = <<>>
    /\ results = <<>>
    /\ res_idx = 1
    /\ task = [n \in 0..k |-> IdleTask]
    /\ dispatched = [n \in 0..k |-> 0]
    /\ dispatch_round = [n \in 0..k |-> 0]
    /\ invocations = [n \in 0..k |-> 0]
    /\ worker_failed = [n \in 0..k |-> FALSE]
    /\ extracted_by = [n \in 0..k |-> <<>>]
    /\ interaction_of = [n \in 0..k |-> NoInteraction]
    /\ execution_of = [n \in 0..k |-> None]
    /\ mark_done_raised = FALSE
    /\ save_failed = FALSE

\* Variant of PlanInit in which ROOT starts pending like every step
PlanInit_RootPending(k, E, ag) ==
    /\ GraphInit(k, E, ag, [n \in 0..k |-> "pending"])
    /\ pc = "loop"

\* ExecutionContextManager.__init__ for the plan: ROOT is completed, every step
\* pending; then _execute_dag up to its loop
PlanInit(k, E, ag) ==
    /\ GraphInit(k, E, ag, [n \in 0..k |-> IF n = ROOT THEN "completed" ELSE "pending"])
    /\ pc = "loop"

\* agent types of the scheduling family: a configured one and one that
\* agent_config.yaml does not know
SchedAgents == {"CoderAgent", "ReviewerAgent"}

\* scheduling family: every small plan, workers that answer at once
InitSched ==
    /\ continue_limit = 0
    /\ may_fail = TRUE
    /\ save_may_fail = FALSE
    /\ shapes = {"final"}
    /\ \E k \in 0..NumNodes :
         \E E \in SetsUpTo(EdgeCandidates(k), MaxEdges) :
           \E ag \in [1..k -> SchedAgents] : PlanInit(k, E, ag)

\* deep family: a chain ROOT -> 1 -> 2 -> ... of DeepChain steps, workers that
\* answer at once and never fail
InitDeep ==
    /\ continue_limit = 0
    /\ may_fail = FALSE
    /\ save_may_fail = FALSE
    /\ shapes = {"final"}
    /\ PlanInit(DeepChain, {<<i - 1, i>> : i \in 1..DeepChain},
                [n \in 1..DeepChain |-> "CoderAgent"])

\* iteration family: independent steps whose worker may ask for continuation
\* on every call
InitIter ==
    /\ continue_limit = step_max_iterations
    /\ may_fail = TRUE
    /\ save_may_fail = FALSE
    /\ shapes = {"final", "plain", "empty", "list", "next", "bare"}
    /\ PlanInit(IterNodes, {}, [n \in 1..IterNodes |-> "CoderAgent"])

Init == InitSched \/ InitDeep \/ InitIter

\* ------------------------------------------------ rounds of several steps
RoundNodes == 2

\* agent types of the rounds family: one that asks the user, a plain
\* configured one, and one that agent_config.yaml does not know
RoundAgents == {"ClarificationAgent", "CoderAgent", "ReviewerAgent"}

\* the write keys of the steps: each step its own key, or one key for all
WriteKeys(k) ==
    {[n \in 0..k |-> IF n = ROOT THEN <<>> ELSE <<KeyOf(n)>>],
     [n \in 0..k |-> IF n = ROOT THEN <<>> ELSE <<"shared">>]}

\* reads of step n: the write keys of the steps it depends on
ReadsFrom(k, E, wr, n) ==
    LET deps == SelectSeq([i \in 1..k |-> i], LAMBDA p : <<p, n>> \in E)
    IN [i \in 1..Len(deps) |-> wr[deps[i]][1]]

\* rounds family: every plan of RoundNodes steps, with steps that may ask the
\* user and that may declare the same write key
InitRound ==
    /\ continue_limit = 0
    /\ may_fail = FALSE
    /\ save_may_fail = FALSE
    /\ \E E \in SetsUpTo(EdgeCandidates(RoundNodes), MaxEdges) :
         \E ag \in [1..RoundNodes -> RoundAgents] :
           \E wr \in WriteKeys(RoundNodes) :
             /\ shapes = {"write", "clarify"}
             /\ plan_nodes = [i \in 1..RoundNodes |-> i]
             /\ edges = E
             /\ agent = [n \in 0..RoundNodes |-> IF n = ROOT THEN "System" ELSE ag[n]]
             /\ reads = [n \in 0..RoundNodes |->
                            IF n = ROOT THEN <<>> ELSE ReadsFrom(RoundNodes, E, wr, n)]
             /\ writes = wr
    /\ status = [n \in 0..RoundNodes |-> IF n = ROOT THEN "completed" ELSE "pending"]
    /\ output = [n \in 0..RoundNodes |-> None]
    /\ error = [n \in 0..RoundNodes |-> None]
    /\ globals_schema = PyDict(<<>>)
    /\ graph_status = "running"
    /\ pc = "loop"
    /\ iteration = 0
    /\ ready_steps = <<>>
    /\ results = <<>>
    /\ res_idx = 1
    /\ task = [n \in 0..RoundNodes |-> IdleTask]
    /\ dispatched = [n \in 0..RoundNodes |-> 0]
    /\ dispatch_round = [n \in 0..RoundNodes |-> 0]
    /\ invocations = [n \in 0..RoundNodes |-> 0]
    /\ worker_failed = [n \in 0..RoundNodes |-> FALSE]
    /\ extracted_by = [n \in 0..RoundNodes |-> <<>>]
    /\ interaction_of = [n \in 0..RoundNodes |-> NoInteraction]
    /\ execution_of = [n \in 0..RoundNodes |-> None]
    /\ mark_done_raised = FALSE
    /\ save_failed = FALSE

Next ==
    \/ IdleRound
    \/ BreakOnFailure
    \/ Dispatch
    \/ \E n \in NodeSet : StepStart(n)
    \/ \E n \in NodeSet : WorkerReturn(n)
    \/ GatherReturn
    \/ ProcessResult
    \/ ExitLoop

Spec == Init /\ [][Next]_vars

\* every enabled step is eventually taken: the event loop runs every coroutine
\* that can run, and every model call returns
FairSpec == Spec /\ WF_vars(Next)

\* runs of the plans of the rounds family
SpecRound == InitRound /\ [][Next]_vars

\* -------------------------------------------- get_ready_steps on its own
\* every small graph with every assignment of statuses to its steps
Statuses == {"pending", "running", "completed", "failed"}

InitReady ==
    /\ continue_limit = 0
    /\ may_fail = FALSE
    /\ save_may_fail = FALSE
    /\ shapes = {"final"}
    /\ pc = "call"
    /\ \E k \in 1..NumNodes :
         \E E \in SetsUpTo(EdgeCandidates(k), MaxEdges) :
           \E st \in [1..k -> Statuses] :
             GraphInit(k, E, [n \in 1..k |-> "CoderAgent"],
                       [n \in 0..k |-> IF n = ROOT THEN "completed" ELSE st[n]])

\* ready_steps = context.get_ready_steps()
CallReady ==
    /\ pc = "call"
    /\ ready_steps' = get_ready_steps
    /\ pc' = "returned"
    /\ UNCHANGED <<planVars, mdVars, nodeVars, iteration, results, res_idx, task, obsVars>>

SpecReady == InitReady /\ [][CallReady]_vars

\* ---------------------------------------------- mark_running on its own
\* context.mark_running(step_id) for a step of any status
CallMarkRunning(step_id) ==
    /\ pc = "call"
    /\ \E save_fails \in SaveOutcomes :
         /\ save_failed' = save_fails
         /\ mark_done_raised' = _auto_save(save_fails)
    /\ status' = mark_running(status, step_id)
    /\ pc' = IF mark_done_raised' THEN "raised" ELSE "marked"
    /\ UNCHANGED <<planVars, extracted_by, interaction_of, execution_of, output, error,
                   globals_schema, iteration, ready_steps, results, res_idx, task,
                   obsVars>>

NextCalls == \E step_id \in NodeSet \ {ROOT} : CallMarkRunning(step_id)

SpecCalls == InitReady /\ [][NextCalls]_vars

\* --------------------------------------- runs in which the disk may fail
\* the scheduling family with a session file that cannot always be written
InitSave ==
    /\ continue_limit = 0
    /\ may_fail = TRUE
    /\ save_may_fail = TRUE
    /\ shapes = {"final"}
    /\ \E k \in 0..NumNodes :
         \E E \in SetsUpTo(EdgeCandidates(k), MaxEdges) :
           \E ag \in [1..k -> SchedAgents] : PlanInit(k, E, ag)

SpecSave == InitSave /\ [][Next]_vars

\* --------------------------------------------------- mark_done on its own
\* Answers of the model have at most MaxItems keys of their own (run_agent adds
\* the cost counters).
MaxItems == 2

\* the keys and values an answer is made of; the step under test is T1 and its
\* write keys are z and q
PayloadItems ==
    {<<"z", PyInt(42)>>, <<"z", PyInt(0)>>, <<"z", None>>,
     <<"formatted_z", PyStr("<html>")>>, <<"formatted_z", PyStr("")>>,
     <<"formatted_report", PyStr("<p>")>>, <<"Formatted_Text", PyStr("<b>")>>,
     <<"notes_T1", PyStr("n")>>,
     <<"execution_result", PyDict(<< <<"q", PyInt(1)>> >>)>>,
     <<"execution_result", PyDict(<< <<"z", PyInt(42)>> >>)>>,
     <<"execution_result",
       PyDict(<< <<"status", PyStr("success")>>,
                 <<"result", PyDict(<< <<"z", PyInt(42)>> >>)>> >>)>>,
     <<"data", PyDict(<< <<"z", PyInt(7)>> >>)>>,
     <<"data", PyList(<< PyDict(<< <<"z", PyInt(7)>> >>) >>)>>,
     <<"data", PyDict(<< <<"z", None>> >>)>>,
     <<"data", PyInt(0)>>,
     <<"code_variants", PyDict(<< <<"CODE_1", PyStr("code")>> >>)>>,
     <<"code_variants", PyInt(1)>>,
     <<"CODE_1", PyStr("code")>>,
     <<"clarificationMessage", PyStr("Which?")>>,
     <<"writes_to", PyStr("z")>>, <<"writes_to", PyStr("choice")>>}

\* the JSON objects of at most m items, keys distinct, in every order
Payloads(m) ==
    {items \in UNION {[1..len -> PayloadItems] : len \in 0..m} :
        \A i, j \in 1..Len(items) : i # j => items[i][1] # items[j][1]}

ExtractAgents == {"CoderAgent", "FormatterAgent", "ClarificationAgent"}

WriteLists == {<<>>, <<"z">>, <<"z", "q">>}

\* globals_schema before the step: what run() was given and put there
PriorStores ==
    {PyDict(<< <<"z", PyStr("old")>>, <<"file_profiles", PyDict(<<>>)>> >>)}

\* step T1 of a one-step plan has been dispatched and waits for its worker
InitExtract ==
    /\ continue_limit = 0
    /\ may_fail = TRUE
    /\ save_may_fail = FALSE
    /\ shapes = {}
    /\ plan_nodes = <<1>>
    /\ edges = {}
    /\ reads = [n \in 0..1 |-> <<>>]
    /\ output = [n \in 0..1 |-> None]
    /\ error = [n \in 0..1 |-> None]
    /\ status = [n \in 0..1 |-> IF n = ROOT THEN "completed" ELSE "running"]
    /\ pc = "gather"
    /\ iteration = 1
    /\ ready_steps = <<1>>
    /\ results = <<>>
    /\ res_idx = 1
    /\ task = [n \in 0..1 |->
           IF n = ROOT THEN IdleTask
           ELSE [IdleTask EXCEPT !.pc = "await", !.current_iteration = 1]]
    /\ dispatched = [n \in 0..1 |-> n]
    /\ dispatch_round = [n \in 0..1 |-> n]
    /\ invocations = [n \in 0..1 |-> n]
    /\ worker_failed = [n \in 0..1 |-> FALSE]
    /\ extracted_by = [n \in 0..1 |-> <<>>]
    /\ interaction_of = [n \in 0..1 |-> NoInteraction]
    /\ execution_of = [n \in 0..1 |-> None]
    /\ mark_done_raised = FALSE
    /\ save_failed = FALSE
    /\ \E ag \in ExtractAgents, wrs \in WriteLists :
         /\ agent = [n \in 0..1 |-> IF n = ROOT THEN "System" ELSE ag]
         /\ writes = [n \in 0..1 |-> IF n = ROOT THEN <<>> ELSE wrs]
    /\ globals_schema \in PriorStores
    /\ graph_status = "running"

\* run_agent returns to the waiting coroutine of step n: the model has given
\* one of the answers, or the call has failed
AnswerReturn(n) ==
    /\ pc = "gather"
    /\ task[n].pc = "await"
    /\ \E result \in
           {RunAgentResult(PyDict(items)) : items \in Payloads(MaxItems)}
           \cup {AgentFailure} :
         AfterAgent(n, result)
    /\ UNCHANGED <<planVars, mdVars, status, error, globals_schema, dagVars,
                   dispatched, dispatch_round>>

\* mark_done is called once more for a completed step, with the same output,
\* the same response of the user and the same execution result
MarkDoneAgain ==
    /\ pc = "loop"
    /\ \E step_id \in NodeSet \ {ROOT} :
         /\ status[step_id] = "completed"
         /\ \E run \in RunsFor(
                  UserInteractionCheck(globals_schema, agent[step_id],
                      task[step_id].result.output, interaction_of[step_id])[2]) :
              /\ MarkDone(globals_schema, step_id, task[step_id].result.output,
                          interaction_of[step_id], run).execution_result
                     = execution_of[step_id]
              /\ mark_done(step_id, task[step_id].result.output,
                           interaction_of[step_id], run)
    /\ pc' = "again"
    /\ UNCHANGED <<planVars, iteration, ready_steps, results, res_idx, task, obsVars>>

NextExtract ==
    \/ \E n \in NodeSet : AnswerReturn(n)
    \/ GatherReturn
    \/ ProcessResult
    \/ MarkDoneAgain

SpecExtract == InitExtract /\ [][NextExtract]_vars

\* ------------------------------------------------------------------ claims
SeqSet(q) == {q[i] : i \in 1..Len(q)}

\* C1: for every graph and every assignment of statuses, get_ready_steps()
\* returns exactly the non-ROOT nodes that are pending and whose every
\* predecessor is completed (a node without predecessors, or with ROOT alone,
\* included), each once and in the graph's node order.
C1_ReadyExact ==
    pc = "returned" =>
        /\ SeqSet(ready_steps) =
               {n \in NodeSet \ {ROOT} :
                   /\ status[n] = "pending"
                   /\ \A p \in NodeSet : <<p, n>> \in edges => status[p] = "completed"}
        /\ \A i, j \in 1..Len(ready_steps) : i < j => ready_steps[i] < ready_steps[j]

\* a graph where one node is ready with a completed step before it and another
\* pending node is held back by a dependency that is not completed
C1_Witness ==
    /\ pc = "returned"
    /\ \E n \in SeqSet(ready_steps) : \E p \in predecessors(n) : p # ROOT
    /\ \E n \in NodeSet \ SeqSet(ready_steps) :
         status[n] = "pending" /\ \E p \in predecessors(n) : status[p] # "completed"

\* C2: whenever a node is running (marked running, its _execute_step
\* dispatched), every predecessor is completed and was dispatched in an
\* earlier round.
C2_DepsCompletedAtDispatch ==
    \A n \in NodeSet :
        (status[n] = "running" \/ task[n].pc \in {"new", "await"}) =>
            \A p \in predecessors(n) :
                /\ status[p] = "completed"
                /\ dispatch_round[p] < dispatch_round[n]

\* a step is running whose dependency is another step of the plan
C2_Witness ==
    \E n \in NodeSet :
        /\ status[n] = "running"
        /\ task[n].pc = "await"
        /\ \E p \in predecessors(n) : p # ROOT

\* C3: a node's status changes only pending -> running and running ->
\* completed or failed; a completed or failed node never changes again.
C3_ForwardOnly ==
    [][\A n \in NodeSet :
          status'[n] # status[n] =>
              \/ status[n] = "pending" /\ status'[n] = "running"
              \/ status[n] = "running" /\ status'[n] \in {"completed", "failed"}]_vars

\* a run has ended with a failed step and a completed step
C3_Witness ==
    /\ pc = "done"
    /\ \E n, m \in NodeSet \ {ROOT} : status[n] = "failed" /\ status[m] = "completed"

\* C4: no node is dispatched to _execute_step more than once (ROOT never), and
\* when the run has ended with all_done() and no failed node every step was
\* dispatched exactly once.
C4_DispatchedOnce ==
    /\ \A n \in NodeSet : dispatched[n] <= 1
    /\ dispatched[ROOT] = 0
    /\ (pc = "done" /\ all_done /\ ~has_failures) =>
           \A n \in NodeSet \ {ROOT} : dispatched[n] = 1

\* a run of a plan with three steps has ended with every step completed
C4_Witness ==
    /\ pc = "done"
    /\ all_done
    /\ ~has_failures
    /\ Len(plan_nodes) >= 3

\* C5: a step one of whose Worker invocations returned a failure indicator
\* never becomes completed, is failed once its result has been processed, and
\* none of its write keys is bound in globals_schema.
C5_WorkerFailureFailsStep ==
    \A n \in NodeSet :
        worker_failed[n] =>
            /\ status[n] # "completed"
            /\ (pc \in {"loop", "done"} => status[n] = "failed")
            /\ \A i \in 1..Len(writes[n]) : ~HasKey(globals_schema, writes[n][i])

\* C6: a failed node stays failed, and every node that depends on it directly
\* or through other nodes is pending and not in the ready list.
C6_FailedIsFinal ==
    /\ [](\A n \in NodeSet :
            status[n] = "failed" =>
                \A d \in Descendants(n) :
                    /\ status[d] = "pending"
                    /\ d \notin SeqSet(get_ready_steps)
                    /\ dispatched[d] = 0)
    /\ [][\A n \in NodeSet : status[n] = "failed" => status'[n] = "failed"]_vars

\* a run has ended with a failed step, a step that depends on it and a step
\* that depends on that one
C6_Witness ==
    /\ pc = "done"
    /\ \E n, d, e \in NodeSet :
         /\ status[n] = "failed"
         /\ <<n, d>> \in edges /\ <<d, e>> \in edges
         /\ n # d /\ d # e /\ n # e

\* C7: for an acyclic plan whose workers do not fail, the driver loop does not
\* start more rounds than the plan has steps, and when it has ended all_done()
\* holds.
C7_DoneWithinNodesRounds ==
    (Acyclic /\ ~has_failures /\ \A n \in NodeSet : ~worker_failed[n]) =>
        /\ iteration <= Len(plan_nodes)
        /\ (pc = "done" => all_done)

\* C8: the driver loop ends; it never starts more than 20 rounds; a round with
\* an empty ready list counts; and when all_done() holds or 20 rounds were
\* started the next thing the loop does is to exit.
C8_Terminates ==
    /\ <>(pc = "done")
    /\ [](iteration <= dag_max_iterations)
    /\ [][(pc = "loop" /\ pc' = "loop") => iteration' = iteration + 1]_vars
    /\ [][(pc = "loop" /\ (all_done \/ iteration >= dag_max_iterations)) =>
              (pc' = "done" /\ status' = status /\ iteration' = iteration)]_vars

\* the loop has ended at the round cap, after idle rounds, with steps that
\* never ran and none failed
C8_Witness ==
    /\ pc = "done"
    /\ iteration = dag_max_iterations
    /\ ~all_done
    /\ ~has_failures
    /\ \E n \in NodeSet : status[n] = "completed" /\ n # ROOT

\* C9: a round that finds the ready list empty and a node failed ends the loop
\* at once, changing no status, with all_done() false; a round that finds the
\* ready list non-empty dispatches it, whether or not a node has failed.
C9_BreakOnFailure ==
    [][/\ (pc = "loop" /\ LoopCondition /\ get_ready_steps = <<>> /\ has_failures) =>
              /\ pc' = "done"
              /\ status' = status
              /\ dispatched' = dispatched
              /\ ~(\A n \in NodeSet : status'[n] \in {"completed", "failed"})
       /\ (pc = "loop" /\ LoopCondition /\ get_ready_steps # <<>>) =>
              /\ pc' = "gather"
              /\ \A n \in SeqSet(get_ready_steps) :
                     status'[n] = "running" /\ dispatched'[n] = dispatched[n] + 1]_vars

\* the loop has ended by the break, before the round cap: a step has failed,
\* another was completed, a third still waits for the failed one
C9_Witness ==
    /\ pc = "done"
    /\ ~all_done
    /\ iteration < dag_max_iterations
    /\ \E n, m, d \in NodeSet \ {ROOT} :
         /\ status[n] = "failed"
         /\ status[m] = "completed"
         /\ status[d] = "pending" /\ <<n, d>> \in edges

\* the worker of step n asked for continuation on every call and none failed
AlwaysContinued(n) ==
    /\ task[n].pc = "done"
    /\ ~task[n].result.exc
    /\ ~worker_failed[n]
    /\ IsDict(task[n].current_output)
    /\ Truthy(DictGet(task[n].current_output, "call_self", PyBool(FALSE)))

\* C10: a step never makes more than max_iterations (20) Worker invocations;
\* when the worker asked for continuation on every call, exactly 20 were
\* made, the step returns success with the last output, and the node is
\* completed with that output, not failed.
C10_IterationBound ==
    \A n \in NodeSet :
        /\ invocations[n] <= step_max_iterations
        /\ AlwaysContinued(n) =>
               /\ invocations[n] = step_max_iterations
               /\ task[n].result.success
               /\ task[n].result.output = task[n].current_output
               /\ output[n] = task[n].current_output
               /\ status[n] # "failed"
               /\ (pc \in {"loop", "done"} => status[n] = "completed")

\* a step whose worker asked for continuation 20 times has been completed
C10_Witness ==
    \E n \in NodeSet :
        /\ AlwaysContinued(n)
        /\ invocations[n] = step_max_iterations
        /\ status[n] = "completed"

\* the last successful output of step n did not ask for continuation
NoContinuation(n) ==
    /\ task[n].current_output # None
    /\ \/ ~IsDict(task[n].current_output)
       \/ ~Truthy(DictGet(task[n].current_output, "call_self", PyBool(FALSE)))

\* C11: once a successful Worker output of a step does not ask for
\* continuation (call_self absent or false), _execute_step has returned with
\* that output as the step's output, and the number of Worker invocations of
\* the step does not change any more.
C11_StopsWithoutContinuation ==
    /\ [](\A n \in NodeSet :
            NoContinuation(n) =>
                /\ task[n].pc = "done"
                /\ task[n].result.success
                /\ task[n].result.output = task[n].current_output
                /\ output[n] = task[n].current_output)
    /\ [][\A n \in NodeSet :
             NoContinuation(n) => invocations'[n] = invocations[n]]_vars

\* a step asked for continuation once, then answered with an empty object
\* (no call_self key): two invocations, and the second output is the node's
C11_Witness ==
    \E n \in NodeSet :
        /\ status[n] = "completed"
        /\ invocations[n] = 2
        /\ ~HasKey(output[n], "call_self")
        /\ ~HasKey(output[n], KeyOf(n))
        /\ output[n] = DictUpdate(EmptyOutput, cost_data)

\* no node that n depends on, directly or through other nodes, has failed
NoFailedAncestor(n) ==
    \A a \in NodeSet : n \in Descendants(a) => status[a] # "failed"

\* C12: every dispatched node ends completed or failed by its own result (failed
\* exactly when its own _execute_step raised), whatever the other nodes of its
\* round did; and when a run of an acyclic plan has ended without being cut
\* off by the round cap, every node without a failed direct or transitive
\* predecessor was dispatched once and is completed or failed.
C12_FailureIsLocal ==
    /\ \A n \in NodeSet \ {ROOT} :
           /\ status[n] = "failed" => (task[n].pc = "done" /\ task[n].result.exc)
           /\ status[n] = "completed" => (task[n].pc = "done" /\ ~task[n].result.exc)
           /\ (pc \in {"loop", "done"} /\ dispatched[n] > 0) =>
                  status[n] \in {"completed", "failed"}
    /\ (pc = "done" /\ Acyclic /\ (all_done \/ iteration < dag_max_iterations)) =>
           \A n \in NodeSet \ {ROOT} :
               NoFailedAncestor(n) =>
                   dispatched[n] = 1 /\ status[n] \in {"completed", "failed"}

\* a run has ended in which a step failed, a step dispatched in the same round
\* was completed, and a step depending on the completed one ran in a later
\* round and was completed
C12_Witness ==
    /\ pc = "done"
    /\ \E n, m, d \in NodeSet \ {ROOT} :
         /\ status[n] = "failed"
         /\ status[m] = "completed" /\ dispatch_round[m] = dispatch_round[n]
         /\ <<m, d>> \in edges
         /\ status[d] = "completed" /\ dispatch_round[d] > dispatch_round[n]

\* C13: for the chain 1 -> 2 where step 1 writes v1, step 2 reads v1 and writes
\* v2, and each worker answers with its write key as a top-level key (v1 = 5,
\* v2 = 10), the run ends with both nodes completed, globals_schema holding
\* v1 = 5 and v2 = 10 and nothing else, and the worker of step 2 invoked once,
\* with the resolved input v1 = 5.
C13_ChainScenario ==
    (/\ pc = "done"
     /\ Len(plan_nodes) = 2
     /\ edges \in {{<<1, 2>>}, {<<ROOT, 1>>, <<1, 2>>}}
     /\ \A n \in {1, 2} : agent[n] \in agent_configs /\ ~worker_failed[n]) =>
        /\ status[1] = "completed" /\ status[2] = "completed"
        /\ globals_schema = PyDict(<< <<"v1", PyInt(5)>>, <<"v2", PyInt(10)>> >>)
        /\ reads[2] = <<"v1">>
        /\ task[2].inputs = PyDict(<< <<"v1", PyInt(5)>> >>)
        /\ invocations[1] = 1 /\ invocations[2] = 1

\* the run of the chain has ended and step 2 got v1 = 5 as its input
C13_Witness ==
    /\ pc = "done"
    /\ Len(plan_nodes) = 2
    /\ edges = {<<1, 2>>}
    /\ status[2] = "completed"
    /\ ~worker_failed[1] /\ ~worker_failed[2]
    /\ HasKey(task[2].inputs, "v1")
    /\ DictAt(globals_schema, "v2") = PyInt(10)

\* the write keys of node n by position
WriteIndex(n) == 1..Len(writes[n])

\* mark_done has completed node n (at least once)
ExtractionDone(n) == n # ROOT /\ status[n] = "completed" /\ Len(extracted_by[n]) = Len(writes[n])

\* the output _execute_step returned for node n; output[n] is what mark_done
\* stored on the node, with the user's response and the execution results
\* merged in
WorkerOutput(n) == task[n].result.output

\* C14: for a step with write key k whose Worker output carries an
\* execution_result with status success whose result mapping has the top-level
\* key k, after completion globals_schema[k] equals result[k], bound by the
\* execution-result direct match.
C14_ExecutionResultDirect ==
    \A n \in NodeSet : ExtractionDone(n) =>
        \A i \in WriteIndex(n) :
            (/\ IsDict(WorkerOutput(n))
             /\ HasKey(WorkerOutput(n), "execution_result")
             /\ IsDict(DictAt(WorkerOutput(n), "execution_result"))
             /\ DictGet(DictAt(WorkerOutput(n), "execution_result"), "status", None)
                    = PyStr("success")
             /\ IsDict(DictGet(DictAt(WorkerOutput(n), "execution_result"),
                               "result", None))
             /\ HasKey(DictAt(DictAt(WorkerOutput(n), "execution_result"), "result"),
                       writes[n][i])) =>
                /\ DictAt(globals_schema, writes[n][i]) =
                       DictAt(DictAt(DictAt(WorkerOutput(n), "execution_result"),
                                     "result"), writes[n][i])
                /\ extracted_by[n][i] = "execution_result_direct"

\* data holds the key k at some depth (whatever its value)
RECURSIVE KeyAtAnyDepth(_, _)
KeyAtAnyDepth(data, k) ==
    IF data.t = "dict"
    THEN \E i \in 1..Len(data.v) :
             data.v[i][1] = k \/ KeyAtAnyDepth(data.v[i][2], k)
    ELSE IF data.t = "list"
    THEN \E i \in 1..Len(data.v) : KeyAtAnyDepth(data.v[i], k)
    ELSE FALSE

\* the strategies of the name-pattern fallback
FormatterStrategies ==
    {"formatter_pattern", "formatter_fallback", "formatter_comprehensive"}

\* C15: for a FormatterAgent node with write key k whose output holds k at no
\* depth but holds a non-empty key formatted_<k>, after completion
\* globals_schema[k] is that value, bound by the name-pattern fallback; for a
\* node of another agent type the name-pattern fallback binds nothing.
C15_FormatterPattern ==
    \A n \in NodeSet : ExtractionDone(n) =>
        \A i \in WriteIndex(n) :
            /\ (/\ agent[n] = "FormatterAgent"
                /\ IsDict(output[n])
                /\ ~KeyAtAnyDepth(output[n], writes[n][i])
                /\ HasKey(output[n], "formatted_" \o writes[n][i])
                /\ Truthy(DictAt(output[n], "formatted_" \o writes[n][i]))) =>
                   /\ DictAt(globals_schema, writes[n][i]) =
                          DictAt(output[n], "formatted_" \o writes[n][i])
                   /\ extracted_by[n][i] = "formatter_pattern"
            /\ agent[n] # "FormatterAgent" =>
                   extracted_by[n][i] \notin FormatterStrategies

\* a FormatterAgent node whose answer had another non-empty key before
\* formatted_z has z bound to the value of formatted_z
C15_Witness ==
    \E n \in NodeSet :
        /\ ExtractionDone(n)
        /\ agent[n] = "FormatterAgent"
        /\ writes[n] = <<"z">>
        /\ extracted_by[n] = <<"formatter_pattern">>
        /\ output[n].v[1][1] = "notes_T1"
        /\ output[n].v[2][1] = "formatted_z"
        /\ DictAt(globals_schema, "z") = PyStr("<html>")

\* the strategies that read the execution result
ExecutionStrategies == {"execution_result_direct", "execution_result_deep"}

\* C16: when a write key is found neither in the execution result nor as a
\* top-level key of the output, but the deep search of the output finds it,
\* globals_schema[k] is the value the deep search finds, also when the output
\* has an execution_result mapping.
C16_OutputDeepSearch ==
    \A n \in NodeSet : ExtractionDone(n) =>
        \A i \in WriteIndex(n) :
            (/\ extracted_by[n][i] \notin ExecutionStrategies
             /\ IsDict(output[n])
             /\ ~HasKey(output[n], writes[n][i])
             /\ deep_search_output(output[n], writes[n][i]) # None) =>
                DictAt(globals_schema, writes[n][i]) =
                    deep_search_output(output[n], writes[n][i])

\* C17: when no extraction strategy yields a value for a declared write key,
\* the node is still completed, the key is bound to the empty list, and a
\* dependent that reads the key is dispatched once all its predecessors are
\* completed and receives the empty list as that input.
C17_EmptyBinding ==
    \A n \in NodeSet : ExtractionDone(n) =>
        \A i \in WriteIndex(n) :
            extracted_by[n][i] = "last_resort" =>
                /\ status[n] = "completed"
                /\ HasKey(globals_schema, writes[n][i])
                /\ DictAt(globals_schema, writes[n][i]) = PyList(<<>>)
                /\ \A d \in NodeSet \ {ROOT} :
                       (/\ <<n, d>> \in edges
                        /\ \E j \in 1..Len(reads[d]) : reads[d][j] = writes[n][i]) =>
                           /\ task[d].pc \notin {"idle", "new"} =>
                                  /\ HasKey(task[d].inputs, writes[n][i])
                                  /\ DictAt(task[d].inputs, writes[n][i]) = PyList(<<>>)
                           /\ (/\ pc = "done"
                               /\ all_done \/ iteration < dag_max_iterations
                               /\ \A q \in NodeSet :
                                      <<q, d>> \in edges => status[q] = "completed") =>
                                  dispatched[d] = 1

\* a step whose model call failed is completed with its key bound to the empty
\* list, and the dependent reading the key has run with the empty list as input
C17_Witness ==
    \E n, d \in NodeSet \ {ROOT} :
        /\ ExtractionDone(n)
        /\ writes[n] # <<>>
        /\ extracted_by[n][1] = "last_resort"
        /\ output[n] = None
        /\ <<n, d>> \in edges
        /\ status[d] = "completed"
        /\ DictAt(task[d].inputs, writes[n][1]) = PyList(<<>>)

\* the extraction for node n from an empty store, as a function of the output
\* mark_done extracted from and the execution result alone
FromEmptyStore(n) ==
    ExtractAll([raised |-> FALSE, gs |-> PyDict(<<>>), by |-> <<>>],
               writes[n], output[n], execution_of[n], agent[n], StepId(n))

C19_KeysNeverRemoved ==
    [][\A i \in 1..Len(globals_schema.v) :
           HasKey(globals_schema', globals_schema.v[i][1])]_vars

\* mark_done has overwritten the key z, added the key q and kept file_profiles
C19_Witness ==
    /\ \E n \in NodeSet : ExtractionDone(n) /\ writes[n] = <<"z", "q">>
    /\ HasKey(globals_schema, "q")
    /\ HasKey(globals_schema, "file_profiles")
    /\ DictAt(globals_schema, "z") # PyStr("old")

\* C20: when a ClarificationAgent node asked the user and got a response, after
\* mark_done globals_schema holds the response under the key the output names
\* in writes_to (user_response when it names none), also when that key is one
\* of the node's write keys.
C20_ResponseKept ==
    \A n \in NodeSet :
        (/\ ExtractionDone(n)
         /\ interaction_of[n].asked
         /\ ~interaction_of[n].raised) =>
            /\ HasKey(globals_schema,
                      DictGet(WorkerOutput(n), "writes_to", PyStr("user_response")).v)
            /\ DictAt(globals_schema,
                      DictGet(WorkerOutput(n), "writes_to", PyStr("user_response")).v)
                   = interaction_of[n].response

\* C21: when the user prompt raises in the mark_done of a user-interaction
\* step, the node ends with status failed (and so never enables a dependent).
C21_InteractionFailureFails ==
    \A n \in NodeSet :
        (/\ n # ROOT
         /\ pc \in {"loop", "again", "done"}
         /\ task[n].pc = "done"
         /\ interaction_of[n].raised) =>
            status[n] = "failed"

\* C22: for a plan whose edges contain a cycle no step is ever marked running
\* or dispatched.
C22_CyclicPlanRejected ==
    ~Acyclic =>
        \A n \in NodeSet \ {ROOT} : dispatched[n] = 0 /\ status[n] = "pending"

\* C23: when _execute_dag has returned, the graph-level status is no longer
\* running.
C23_GraphStatusLeavesRunning ==
    pc = "done" => graph_status # "running"

\* "if context.all_done(): print('All tasks completed!')" after the loop
AllTasksCompletedReported == pc = "done" /\ all_done

\* C24: the end-of-run success report is produced only when every node is
\* completed, never when some node is failed.
C24_SuccessReportOnlyWithoutFailure ==
    AllTasksCompletedReported => \A n \in NodeSet : status[n] = "completed"

\* C25: all_done() is true exactly when every node of the graph, ROOT included,
\* is completed or failed: it is false whenever a node is pending or running,
\* and true otherwise.
C25_AllDoneIffTerminal ==
    /\ \A n \in NodeSet : status[n] \in {"pending", "running", "completed", "failed"}
    /\ all_done <=> ~(\E n \in NodeSet : status[n] \in {"pending", "running"})
    /\ all_done => status[ROOT] \in {"completed", "failed"}

\* all_done() holds in a graph with a failed and a completed step
C25_Witness ==
    /\ all_done
    /\ \E n, m \in NodeSet \ {ROOT} : status[n] = "failed" /\ status[m] = "completed"

\* C26: mark_running(id) on a node that is not pending leaves the node's status
\* as it was.
C26_MarkRunningOnlyFromPending ==
    [][pc' = "marked" =>
           \A n \in NodeSet : status[n] # "pending" => status'[n] = status[n]]_vars

\* C27: when the snapshot fails in mark_running, mark_done or mark_failed no
\* exception leaves the call, and the call has its effect: after the round's
\* mark_running calls every ready step is running; after mark_failed the node
\* is failed with its error; after mark_done the node is completed, its output
\* stored and its write keys bound.
C27_SnapshotFailureSwallowed ==
    /\ [](save_failed => (~mark_done_raised /\ pc # "raised"))
    /\ [][save_failed' =>
              /\ (pc = "loop" /\ LoopCondition /\ get_ready_steps # <<>>) =>
                     /\ pc' = "gather"
                     /\ \A i \in 1..Len(get_ready_steps) :
                            status'[get_ready_steps[i]] = "running"
              /\ pc = "process" =>
                     /\ pc' \in {"loop", "process"}
                     /\ results[res_idx].exc =>
                            /\ status'[ready_steps[res_idx]] = "failed"
                            /\ error'[ready_steps[res_idx]] = results[res_idx].error
                     /\ ~results[res_idx].exc =>
                            /\ status'[ready_steps[res_idx]] = "completed"
                            /\ output'[ready_steps[res_idx]] = results[res_idx].output
                            /\ \A i \in WriteIndex(ready_steps[res_idx]) :
                                   HasKey(globals_schema',
                                          writes[ready_steps[res_idx]][i])]_vars

\* the snapshot failed in the mark_done of a step that is completed with its
\* key bound to the value of its output, after a step had failed
C27_Witness ==
    /\ save_failed
    /\ pc = "loop"
    /\ \E n, m \in NodeSet \ {ROOT} :
         /\ status[n] = "failed"
         /\ status[m] = "completed"
         /\ ready_steps[Len(ready_steps)] = m
         /\ DictAt(globals_schema, KeyOf(m)) = ValueOf(m)

\* ------------------------------------------------- the session snapshot
\* json.dump(value, default=str): the JSON text as a tree; a tuple is written
\* as an array like a list
RECURSIVE JsonDump(_)
JsonDump(value) ==
    CASE value.t = "none" -> [j |-> "null", v |-> 0]
      [] value.t = "bool" -> [j |-> IF value.v THEN "true" ELSE "false", v |-> 0]
      [] value.t = "int" -> [j |-> "integer", v |-> value.v]
      [] value.t = "float" -> [j |-> "real", v |-> value.v]
      [] value.t = "str" -> [j |-> "string", v |-> value.v]
      [] value.t \in {"list", "tuple"} ->
             [j |-> "array", v |-> [i \in 1..Len(value.v) |-> JsonDump(value.v[i])]]
      [] OTHER ->
             [j |-> "object",
              v |-> [i \in 1..Len(value.v) |->
                        <<value.v[i][1], JsonDump(value.v[i][2])>>]]

\* json.load: an array is read as a list
RECURSIVE JsonLoad(_)
JsonLoad(doc) ==
    CASE doc.j = "null" -> None
      [] doc.j = "true" -> PyBool(TRUE)
      [] doc.j = "false" -> PyBool(FALSE)
      [] doc.j = "integer" -> PyInt(doc.v)
      [] doc.j = "real" -> PyFloat(doc.v)
      [] doc.j = "string" -> PyStr(doc.v)
      [] doc.j = "array" -> PyList([i \in 1..Len(doc.v) |-> JsonLoad(doc.v[i])])
      [] OTHER -> PyDict([i \in 1..Len(doc.v) |->
                             <<doc.v[i][1], JsonLoad(doc.v[i][2])>>])

\* the id of a node in the plan graph
NodeName(n) == IF n = ROOT THEN "ROOT" ELSE StepId(n)

\* the attributes of node n: for a step the keys of its plan entry, then the
\* ones __init__ adds
NodeAttrs(n) ==
    PyDict((IF n = ROOT THEN << <<"agent", PyStr(agent[n])>> >>
            ELSE << <<"id", PyStr(NodeName(n))>>,
                    <<"agent", PyStr(agent[n])>>,
                    <<"reads", PyList([i \in 1..Len(reads[n]) |-> PyStr(reads[n][i])])>>,
                    <<"writes",
                      PyList([i \in 1..Len(writes[n]) |-> PyStr(writes[n][i])])>> >>)
           \o << <<"status", PyStr(status[n])>>,
                 <<"output", output[n]>>,
                 <<"error", error[n]>> >>)

\* the graph-level attributes
GraphAttrs ==
    PyDict(<< <<"status", PyStr(graph_status)>>,
              <<"globals_schema", globals_schema>> >>)

\* the edges in the order of the nodes
EdgeSeq ==
    LET N == Len(GraphNodes)
        pairs == [i \in 1..(N * N) |->
                     <<GraphNodes[((i - 1) \div N) + 1], GraphNodes[((i - 1) % N) + 1]>>]
    IN SelectSeq(pairs, LAMBDA e : e \in edges)

\* the plan graph in memory: graph attributes, nodes with their attributes, edges
plan_graph ==
    [graph |-> GraphAttrs,
     nodes |-> [i \in 1..Len(GraphNodes) |->
                   <<NodeName(GraphNodes[i]), NodeAttrs(GraphNodes[i])>>],
     edges |-> {<<NodeName(e[1]), NodeName(e[2])>> : e \in edges}]

\* nx.node_link_data(G): every node's attributes with the node's id under 'id'
node_link_data(G) ==
    PyDict(<< <<"directed", PyBool(TRUE)>>,
              <<"multigraph", PyBool(FALSE)>>,
              <<"graph", G.graph>>,
              <<"nodes", PyList([i \in 1..Len(G.nodes) |->
                             DictSet(G.nodes[i][2], "id", PyStr(G.nodes[i][1]))])>>,
              <<"links", PyList([i \in 1..Len(EdgeSeq) |->
                             PyDict(<< <<"source", PyStr(NodeName(EdgeSeq[i][1]))>>,
                                       <<"target", PyStr(NodeName(EdgeSeq[i][2]))>> >>)])>> >>)

\* nx.node_link_graph(data, edges="links"): 'id' names the node and is not one
\* of its attributes
node_link_graph(data) ==
    [graph |-> DictAt(data, "graph"),
     nodes |-> [i \in 1..Len(DictAt(data, "nodes").v) |->
                   LET n == DictAt(data, "nodes").v[i]
                   IN <<DictAt(n, "id").v,
                        PyDict(SelectSeq(n.v, LAMBDA item : item[1] # "id"))>>],
     edges |-> {<<DictAt(DictAt(data, "links").v[i], "source").v,
                  DictAt(DictAt(data, "links").v[i], "target").v>> :
                    i \in 1..Len(DictAt(data, "links").v)}]

\* _save_session(): the content of the session file
_save_session == JsonDump(node_link_data(plan_graph))

\* load_session(session_file): the plan graph of the loaded context
load_session(session_file) == node_link_graph(JsonLoad(session_file))

\* the node fields that make two graphs equivalent
NodeFields == {"agent", "reads", "writes", "status", "output", "error"}

\* the graphs G and L have the same nodes with the same fields, the same edges
\* and the same graph attributes
Equivalent(G, L) ==
    /\ Len(G.nodes) = Len(L.nodes)
    /\ \A i \in 1..Len(G.nodes) :
           /\ i <= Len(L.nodes)
           /\ G.nodes[i][1] = L.nodes[i][1]
           /\ \A f \in NodeFields :
                  /\ HasKey(G.nodes[i][2], f) <=> HasKey(L.nodes[i][2], f)
                  /\ HasKey(G.nodes[i][2], f) =>
                         DictAt(G.nodes[i][2], f) = DictAt(L.nodes[i][2], f)
    /\ G.edges = L.edges
    /\ G.graph = L.graph

\* C28: the graph loaded from the session file is equivalent to the graph that
\* was saved: same nodes with the same status, output, error, reads and writes,
\* same edges, same graph attributes with the same globals_schema.
C28_SaveLoadRoundTrip ==
    Equivalent(plan_graph, load_session(_save_session))

\* C29: at every computation of the ready list and when the driver loop has
\* been left, no node is running: every step dispatched in a round was
\* completed or failed before.
C29_NoRunningBetweenRounds ==
    pc \in {"loop", "done", "raised", "again"} =>
        \A n \in NodeSet : status[n] # "running"

\* sum(1 for node_id in nodes if node_id != "ROOT" and status == wanted)
RECURSIVE CountStatus(_, _)
CountStatus(nodes, wanted) ==
    IF nodes = <<>> THEN 0
    ELSE (IF Head(nodes) # ROOT /\ status[Head(nodes)] = wanted THEN 1 ELSE 0)
         + CountStatus(Tail(nodes), wanted)

\* Variant of get_execution_summary whose total counts ROOT
get_execution_summary_WithRoot ==
    [completed_steps |-> CountStatus(GraphNodes, "completed"),
     failed_steps |-> CountStatus(GraphNodes, "failed"),
     total_steps |-> Len(GraphNodes)]

\* get_execution_summary(): the three step counters
get_execution_summary ==
    [completed_steps |-> CountStatus(GraphNodes, "completed"),
     failed_steps |-> CountStatus(GraphNodes, "failed"),
     total_steps |-> Len(GraphNodes) - 1]

\* C30: when the run has ended the summary's completed_steps and failed_steps
\* are the numbers of completed and failed steps, total_steps is the number
\* of steps, and total_steps - completed_steps - failed_steps is the number of
\* steps that never ran; for the chain 1 -> 2 whose step 1 fails the summary
\* has 0 completed, 1 failed and 1 never run.
C30_SummaryCounts ==
    pc = "done" =>
        /\ get_execution_summary.completed_steps =
               Cardinality({n \in NodeSet \ {ROOT} : status[n] = "completed"})
        /\ get_execution_summary.failed_steps =
               Cardinality({n \in NodeSet \ {ROOT} : status[n] = "failed"})
        /\ get_execution_summary.total_steps = Cardinality(NodeSet \ {ROOT})
        /\ get_execution_summary.total_steps
               - get_execution_summary.completed_steps
               - get_execution_summary.failed_steps =
               Cardinality({n \in NodeSet \ {ROOT} : dispatched[n] = 0})
        /\ (/\ Len(plan_nodes) = 2
            /\ edges \in {{<<1, 2>>}, {<<ROOT, 1>>, <<1, 2>>}}
            /\ status[1] = "failed") =>
               /\ status[2] = "pending"
               /\ get_execution_summary =
                      [completed_steps |-> 0, failed_steps |-> 1, total_steps |-> 2]

\* the run of the chain 1 -> 2 has ended with step 1 failed and step 2 never run
C30_Witness ==
    /\ pc = "done"
    /\ Len(plan_nodes) = 2
    /\ edges = {<<1, 2>>}
    /\ status[1] = "failed"
    /\ dispatched[2] = 0
    /\ get_execution_summary.failed_steps = 1

\* C31: a node that is pending, running or completed has no error message.
C31_ErrorOnlyWhenFailed ==
    \A n \in NodeSet : status[n] # "failed" => error[n] = None

\* a failed step has its error message while a completed step of the same plan
\* has none
C31_Witness ==
    \E n, m \in NodeSet \ {ROOT} :
        /\ status[n] = "failed" /\ error[n] # None
        /\ status[m] = "completed" /\ error[m] = None

\* ------------------------------------------------- inputs of the iterations
\* the call of run_agent that step n is waiting for is its first
FirstInvocation(n) == task[n].pc = "await" /\ task[n].current_iteration = 1

\* run_agent returned to step n with a request for continuation and the step
\* called it again
Reinvoked(n) ==
    /\ task[n].pc = "await" /\ task'[n].pc = "await"
    /\ task'[n].current_iteration = task[n].current_iteration + 1

\* C32: the first invocation of a step carries the step's own prompt and neither
\* previous_output nor iteration_context; when an invocation's output asks for
\* continuation, the next invocation gets that output as previous_output, its
\* next_instruction as the prompt and its iteration_context as the iteration
\* context, and a key the output leaves out keeps what the round before sent.
C32_IterationInputs ==
    /\ [](\A n \in NodeSet \ {ROOT} :
            FirstInvocation(n) =>
                /\ DictAt(task[n].agent_input, "agent_prompt") = agent_prompt(n)
                /\ ~HasKey(task[n].agent_input, "previous_output")
                /\ ~HasKey(task[n].agent_input, "iteration_context"))
    /\ [][\A n \in NodeSet \ {ROOT} :
            Reinvoked(n) =>
                LET out == task'[n].current_output
                    before == task[n].agent_input
                    sent == task'[n].agent_input
                IN /\ Truthy(DictGet(out, "call_self", PyBool(FALSE)))
                   /\ DictAt(sent, "previous_output") = out
                   /\ DictAt(sent, "agent_prompt") =
                          DictGet(out, "next_instruction", DictAt(before, "agent_prompt"))
                   /\ DictGet(sent, "iteration_context", None) =
                          DictGet(out, "iteration_context",
                                  DictGet(before, "iteration_context", None))]_vars

C32_Witness ==
    \E n \in NodeSet \ {ROOT} :
        /\ task[n].pc = "await" /\ task[n].current_iteration >= 3
        /\ ~HasKey(task[n].current_output, "next_instruction")
        /\ ~HasKey(task[n].current_output, "iteration_context")
        /\ DictAt(task[n].agent_input, "previous_output") = task[n].current_output
        /\ DictAt(task[n].agent_input, "agent_prompt") = PyStr("polish")
        /\ HasKey(task[n].agent_input, "iteration_context")

\* ------------------------------------------------- the history of iterations
\* _execute_step of step n reached its return statement, after storing the
\* history of the loop in the node
StepReturned(n) == task[n].pc = "done" /\ ~task[n].result.exc

\* step_data['iterations'] = iterations_data, the list the loop created empty
iterations(n) == task[n].iterations_data

\* step_data['call_self_used'] = len(iterations_data) > 1
call_self_used(n) == Len(iterations(n)) > 1

\* C33: once the iterations loop of a step has ended, the node's call_self_used
\* is true exactly when the worker was invoked more than once, and the node's
\* iterations hold the outputs of the invocations before the last.
C33_IterationHistory ==
    \A n \in NodeSet \ {ROOT} :
        StepReturned(n) =>
            /\ call_self_used(n) <=> invocations[n] > 1
            /\ invocations[n] > 1 => iterations(n) # <<>>

\* ------------------------------------------- a step that waits for the user
\* the result loop has reached step n, whose output is a clarification
\* request: mark_done(n) is the next call, and it prompts the user
InteractionPending(n) ==
    /\ pc = "process"
    /\ res_idx <= Len(ready_steps)
    /\ ready_steps[res_idx] = n
    /\ ~results[res_idx].exc /\ results[res_idx].success
    /\ _is_clarification_request(agent[n], results[res_idx].output)

\* C34: while a step of a round waits for the user's reply, every other step of
\* the round has been marked completed or failed, or is the next one to be
\* marked (the pass of the result loop that marks it can run at once).
C34_OthersNotBlocked ==
    \A n \in NodeSet \ {ROOT} :
        InteractionPending(n) =>
            \A i \in 1..Len(ready_steps) :
                ready_steps[i] # n =>
                    \/ status[ready_steps[i]] \in {"completed", "failed"}
                    \/ res_idx = i

\* ------------------------------------------- the order of the name patterns
\* the output of node n has a non-empty value under this key
NonEmptyAt(n, key) == HasKey(output[n], key) /\ Truthy(DictAt(output[n], key))

\* the first item of node n's output whose key contains 'formatted' (in any
\* case) and whose value is non-empty; 0 when there is none
FirstFormatted(n) ==
    FirstWhere(output[n].v,
        LAMBDA item : Contains(Lower(item[1]), "formatted") /\ Truthy(item[2]))

\* the first item of node n's output whose key contains the step id or the
\* write key and whose value is non-empty; 0 when there is none
FirstNamed(n, write_key) ==
    FirstWhere(output[n].v,
        LAMBDA item : /\ Truthy(item[2])
                      /\ \/ Contains(item[1], StepId(n))
                         \/ Contains(item[1], write_key))

FallbackStrategies == {"fallback_result", "fallback_output", "last_resort"}

\* the mapping d has a non-empty value
HasNonEmpty(d) == IsDict(d) /\ \E i \in 1..Len(d.v) : Truthy(d.v[i][2])

\* execution_result.get("result") of node n's code execution
ResultOf(n) ==
    IF Truthy(execution_of[n]) THEN DictGet(execution_of[n], "result", None) ELSE None

\* C36: when the emergency fallback binds a write key, the value is empty only
\* if neither the result of the code execution nor the output holds a
\* non-empty value.
C36_NoEmptyFallback ==
    \A n \in NodeSet : ExtractionDone(n) =>
        \A i \in WriteIndex(n) :
            (/\ extracted_by[n][i] \in FallbackStrategies
             /\ ~Truthy(DictAt(globals_schema, writes[n][i]))) =>
                /\ ~HasNonEmpty(ResultOf(n))
                /\ ~HasNonEmpty(output[n])

\* --------------------------------------------- the store during a round
\* step n of the current round has been started and has not returned
InFlight(n) ==
    /\ \E i \in 1..Len(ready_steps) : ready_steps[i] = n
    /\ task[n].pc \in {"new", "await"}

\* C37: globals_schema changes only in a pass of the result loop, when every
\* step of the round has returned, and the pass handles one step only; so
\* during the round the inputs a step got are still what the store holds for
\* its reads, whatever the steps of the round and their iterations returned.
C37_StoreQuietInFlight ==
    /\ [][globals_schema' # globals_schema =>
            /\ pc = "process"
            /\ \A n \in NodeSet : ~InFlight(n)
            /\ res_idx' = res_idx + 1
            /\ \A n \in NodeSet :
                 n # ready_steps[res_idx] =>
                     /\ status'[n] = status[n]
                     /\ extracted_by'[n] = extracted_by[n]]_vars
    /\ [](pc = "gather" =>
            \A n \in NodeSet :
                task[n].pc = "await" =>
                    task[n].inputs = get_inputs(globals_schema, reads[n]))

\* one step of the round has returned an output with its variable, another is
\* still waiting for its worker, and the store has no value for the variable
C37_Witness ==
    /\ pc = "gather"
    /\ \E n, m \in NodeSet \ {ROOT} :
         /\ task[n].pc = "done"
         /\ IsDict(task[n].result.output)
         /\ HasKey(task[n].result.output, KeyOf(n))
         /\ ~HasKey(globals_schema, KeyOf(n))
         /\ InFlight(m)

\* ------------------------------------------ two writers of one key in a round
\* steps n and m were dispatched in the same round, n before m in the ready
\* list, both declare the same single write key, the result loop has completed
\* both, and no step after m in the list was completed with the same key
SameRoundWriters(n, m) ==
    /\ n # ROOT /\ m # ROOT /\ n # m
    /\ dispatch_round[n] > 0 /\ dispatch_round[n] = dispatch_round[m]
    /\ \E i, j \in 1..Len(ready_steps) :
           /\ i < j /\ ready_steps[i] = n /\ ready_steps[j] = m
           /\ \A l \in (j + 1)..Len(ready_steps) :
                  \/ writes[ready_steps[l]] # writes[m]
                  \/ status[ready_steps[l]] # "completed"
    /\ Len(writes[n]) = 1 /\ writes[n] = writes[m]
    /\ pc = "loop"
    /\ ExtractionDone(n) /\ ExtractionDone(m)

\* C38: when two steps of one round declare the same write key and both
\* complete, the store holds after the round the value extracted for the step
\* that is later in the ready list, in every order in which the workers of the
\* two steps returned.
C38_LaterWriterWins ==
    \A n, m \in NodeSet :
        SameRoundWriters(n, m) =>
            DictAt(globals_schema, writes[m][1]) =
                DictAt(FromEmptyStore(m).gs, writes[m][1])

\* both steps bound different values, and the later one's is in the store
C38_Witness ==
    \E n, m \in NodeSet :
        /\ SameRoundWriters(n, m)
        /\ DictAt(FromEmptyStore(n).gs, writes[n][1])
               # DictAt(FromEmptyStore(m).gs, writes[m][1])
        /\ DictAt(globals_schema, writes[m][1]) = ValueOf(m)

\* ------------------------------------------- writes bound, reads resolved
\* step n has resolved its inputs: its coroutine ran get_inputs
InputsResolved(n) == n # ROOT /\ task[n].pc \in {"await", "done"}

\* the read key is a declared write of a predecessor of step n
WrittenByPredecessor(n, read_key) ==
    \E p \in predecessors(n) :
        \E i \in 1..Len(writes[p]) : writes[p][i] = read_key

\* C39: every declared write key of a completed node is bound in
\* globals_schema, and the inputs a dispatched step resolved hold every read
\* key that is a declared write of one of its predecessors.
C39_WritesBoundReadsResolved ==
    /\ \A n \in NodeSet :
           status[n] = "completed" =>
               \A i \in WriteIndex(n) : HasKey(globals_schema, writes[n][i])
    /\ \A n \in NodeSet :
           InputsResolved(n) =>
               \A i \in 1..Len(reads[n]) :
                   WrittenByPredecessor(n, reads[n][i]) =>
                       HasKey(task[n].inputs, reads[n][i])

\* a step with two completed predecessors waits for its worker with both of
\* their variables among its inputs
C39_Witness ==
    \E n \in NodeSet \ {ROOT} :
        /\ task[n].pc = "await"
        /\ Len(reads[n]) = 2
        /\ \A i \in 1..2 : WrittenByPredecessor(n, reads[n][i])
        /\ \A p \in predecessors(n) : p # ROOT /\ status[p] = "completed"
        /\ Len(task[n].inputs.v) = 2

\* ------------------------------------------------------------- the root
\* C40: ROOT is completed in every state, get_ready_steps never returns it, no
\* round dispatches it or runs a worker for it, and the summary's step counters
\* leave it out.
C40_RootInert ==
    /\ status[ROOT] = "completed"
    /\ \A i \in 1..Len(get_ready_steps) : get_ready_steps[i] # ROOT
    /\ \A i \in 1..Len(ready_steps) : ready_steps[i] # ROOT
    /\ dispatched[ROOT] = 0 /\ invocations[ROOT] = 0
    /\ task[ROOT] = IdleTask
    /\ get_execution_summary.total_steps = Len(plan_nodes)
    /\ get_execution_summary.completed_steps =
           Cardinality({n \in NodeSet \ {ROOT} : status[n] = "completed"})

\* the run has ended with every step completed after a round of its own or a
\* shared one, and the summary counts the steps only
C40_Witness ==
    /\ pc = "done"
    /\ Len(plan_nodes) >= 2
    /\ \A n \in NodeSet \ {ROOT} : status[n] = "completed" /\ dispatched[n] = 1
    /\ get_execution_summary.completed_steps = Len(plan_nodes)
    /\ get_execution_summary.total_steps = Len(GraphNodes) - 1

====
